---- MODULE Spec2Model ----
(***************************************************************************)
(* Model of the fetch layer of similarweb_extract/DataFetcher.py:          *)
(*   RequestsCache      - sqlite-backed response cache                     *)
(*   HttpFetcher        - throttled transport with retries                 *)
(*   CachedDataFetcher  - facade composing the two                         *)
(* The asyncio event loop runs one coroutine at a time; every action below *)
(* is one run of a coroutine between two suspension points.                *)
(***************************************************************************)
EXTENDS Integers, Sequences, FiniteSets, TLC

\* ---------------------------------------------------------------------------
\* Program constants
\* ---------------------------------------------------------------------------
MAX_HTTP_RETRIES == 3

\* days
CACHE_DATA_LIFESPAN == 50

COMMIT_THRESHOLD == 100

SQL_MAX_VARIABLES == 900

\* HttpFetcher._time_period, seconds
TIME_PERIOD == 1

\* ---------------------------------------------------------------------------
\* Bounds of the model
\* ---------------------------------------------------------------------------
\* number of overlapping fetch calls made in one run of the transport
NCalls == 2

\* number of calls made one after the other in one run of the fetcher
NFacadeCalls == 1

\* longest URL list handed to fetch_all
MaxUrls == 2

\* largest ceiling handed to set_rate
MaxRate == 2

\* number of set_rate calls made in one run
MaxSetRate == 1

\* total number of HTTP requests issued in one run of the transport
MaxAttempts == 3

\* total number of HTTP requests issued in one run of the fetcher
MaxFacadeAttempts == 3

\* rows a cache file holds when it is opened
MaxStoredRows == 1

\* calls made on the cache directly in one run
MaxCacheOps == 2

\* seconds the clock of the event loop runs in one run
MaxTime == 3

\* domains in the list execute loads
NDomains == 3

\* domains execute takes in one chunk (20 in the program)
ChunkSize == 2

\* days a run lasts at most
MaxDays == 50


None == "None"

Calls == 1..NCalls

Tasks == Calls \X (1..MaxUrls)

Rates == 1..MaxRate

Domains == 1..NDomains

\* the cache file main() configures, and another one
DB1 == "config/apicache.sqlite"

DB2 == "other/apicache.sqlite"

DbPaths == {DB1, DB2}

\* ---------------------------------------------------------------------------
\* URLs and RequestsCache._normalize_url
\* ---------------------------------------------------------------------------
\* lexicographic order of the parameter names used in the model
NameOrder == <<"a", "api_key", "b">>

NameRank(n) == CHOOSE i \in 1..Len(NameOrder) : NameOrder[i] = n

Url(base, query, fragment) == [base |-> base, query |-> query, fragment |-> fragment]

U1 == Url("https://a.com/x", <<<<"b", "2">>, <<"api_key", "K">>, <<"a", "1">>>>, "")

U2 == Url("https://a.com/x", <<<<"a", "1">>, <<"b", "2">>>>, "")

U3 == Url("https://a.com/y", <<<<"api_key", "K">>>>, "")

Urls == {U1, U2, U3}

\* a parameter name repeated with two values, in both orders
U4 == Url("https://a.com/x", <<<<"a", "1">>, <<"a", "2">>>>, "")

U5 == Url("https://a.com/x", <<<<"a", "2">>, <<"a", "1">>>>, "")

\* the request of U2 with a fragment
U6 == Url("https://a.com/x", <<<<"a", "1">>, <<"b", "2">>>>, "top")

\* the request of U1 made with another credential
U7 == Url("https://a.com/x", <<<<"b", "2">>, <<"api_key", "L">>, <<"a", "1">>>>, "")

\* URLs that carry a credential
CredentialUrls == {U1, U3, U7}

\* the URLs handed to the cache directly
CacheUrls == {U1, U2, U4, U5, U6}

\* urllib.parse.parse_qsl: parameters with a blank value are dropped
ParseQsl(query) == SelectSeq(query, LAMBDA p : p[2] # "")

\* list.sort(key=name): stable insertion of p behind every name <= its own
RECURSIVE InsertByName(_, _)
InsertByName(p, s) ==
    IF s = <<>> THEN <<p>>
    ELSE IF NameRank(p[1]) < NameRank(Head(s)[1]) THEN <<p>> \o s
    ELSE <<Head(s)>> \o InsertByName(p, Tail(s))

RECURSIVE SortByName(_)
SortByName(s) ==
    IF s = <<>> THEN <<>>
    ELSE InsertByName(s[Len(s)], SortByName(SubSeq(s, 1, Len(s) - 1)))

\* mutant: the api_key parameter is kept in the key
Normalize_KeepsCredential(url) ==
    [url EXCEPT !.query = SortByName(ParseQsl(url.query))]

Normalize(url) ==
    LET query_params == SelectSeq(ParseQsl(url.query), LAMBDA p : p[1] # "api_key")
    IN  [url EXCEPT !.query = SortByName(query_params)]

Keys == {Normalize(u) : u \in Urls}

\* ---------------------------------------------------------------------------
\* Payloads, json.dumps / json.loads, HTTP responses
\* ---------------------------------------------------------------------------
\* Payloads are decoded JSON values: "old" (stored by an earlier run), "fresh"
\* and "nodata" (bodies the API sends), and "empty" for {} / [] / 0 / false.
\* Python truth value of a fetch result
Truthy(p) == p \notin {None, "empty"}

\* json.dumps: the text stored in the response column
Dumps(p) == <<"json", p>>

\* a stored text json.loads cannot decode
CorruptText == <<"garbage">>

ValueError == "ValueError"

\* json.loads
Loads(text) == IF text[1] = "json" THEN text[2] ELSE ValueError

\* an HTTP response: status and whether content_type is application/json
Resp(status, json) == [status |-> status, json |-> json]

\* the HTTP call raising aiohttp.ClientConnectionError before any response
ConnError == [status |-> 0, json |-> FALSE]

Responses ==
    { Resp(200, TRUE), Resp(200, FALSE), Resp(404, TRUE), Resp(404, FALSE),
      Resp(400, TRUE), Resp(403, FALSE), Resp(503, FALSE) }

Outcomes == Responses \cup {ConnError}

\* statuses on and around every boundary _fetch_retry tests
Statuses == {100, 200, 204, 301, 399, 400, 401, 404, 405, 428, 429, 430, 499,
             500, 503, 599, 600}

AllResponses == {Resp(s, j) : s \in Statuses, j \in BOOLEAN}

\* response.json(): the decoded body of a JSON response
Body(r) == IF r.status = 404 THEN "nodata" ELSE "fresh"

\* mutant: 429 is not singled out, it falls to the other statuses >= 400
Classify_429Fatal(r) ==
    IF 500 <= r.status /\ r.status < 600 THEN "RETRIABLE"
    ELSE IF r.status = 400 /\ r.json THEN "FATAL"
    ELSE IF r.status >= 400 /\ r.status # 404 THEN "FATAL"
    ELSE IF r.json THEN "VALID"
    ELSE "NONJSON"

\* HttpFetcher._fetch_retry, the branch taken on a response
Classify(r) ==
    IF r.status = 429 \/ (500 <= r.status /\ r.status < 600) THEN "RETRIABLE"
    ELSE IF r.status = 400 /\ r.json THEN "FATAL"
    ELSE IF r.status >= 400 /\ r.status # 404 THEN "FATAL"
    ELSE IF r.json THEN "VALID"
    ELSE "NONJSON"

\* mutant: every ClientResponseError is retried, not only RetriableError
Retried_AnyResponseError(o) == o = ConnError \/ Classify(o) \in {"RETRIABLE", "FATAL"}

\* backoff.on_exception: the exceptions that make _fetch_retry run again
Retried(o) == o = ConnError \/ Classify(o) = "RETRIABLE"

\* mutant: max_tries counted as retries, one attempt more
GiveUp_OneMore(tries) == tries > MAX_HTTP_RETRIES

\* backoff.on_exception(max_tries): give up once tries attempts have failed
GiveUp(tries) == tries >= MAX_HTTP_RETRIES

\* ---------------------------------------------------------------------------
\* Python dicts: insertion-ordered sequences of <<key, value>> pairs
\* ---------------------------------------------------------------------------
DictKeys(d) == {d[i][1] : i \in 1..Len(d)}

DictSet(d, k, v) ==
    IF k \in DictKeys(d)
    THEN [i \in 1..Len(d) |-> IF d[i][1] = k THEN <<k, v>> ELSE d[i]]
    ELSE Append(d, <<k, v>>)

RECURSIVE DictUpdate(_, _)
DictUpdate(d, e) ==
    IF e = <<>> THEN d
    ELSE DictUpdate(DictSet(d, Head(e)[1], Head(e)[2]), Tail(e))

\* the container fetch_all starts from: the dict of cache hits, or the list []
PyDict(items) == [type |-> "dict", items |-> items]

PyList == [type |-> "list", items |-> <<>>]

\* ---------------------------------------------------------------------------
\* State
\* ---------------------------------------------------------------------------
VARIABLES
    conn,             \* RequestsCache._conn: None or "open"
    responses,        \* the responses table: key -> row, for the keys stored
    actions_pending,  \* RequestsCache._actions_pending
    now,              \* datetime('now'), in days
    sem_throttle,     \* HttpFetcher._sem_throttle: free throttle slots
    max_nb_requests,  \* HttpFetcher._max_nb_requests
    sem_concurrency,  \* HttpFetcher._sem_concurrency: 1 when the lock is free
    timers,           \* pending call_later(time_period, release) callbacks
    rate,             \* the set_rate call in progress
    nrate,            \* number of set_rate calls made
    rate2,            \* a set_rate call made while the one of `rate` waits
    task,             \* HttpFetcher.fetch coroutines, one per (call, index)
    call,             \* CachedDataFetcher.fetch / fetch_all calls, and the day
                      \* each one ended
    attempts,         \* number of HTTP requests issued
    session,          \* HttpFetcher._session: "open" or None
    op,               \* the last call made on the cache or of close, and the
                      \* cache as that call found it
    files,            \* the cache files: the committed responses table of each
                      \* and the number of sqlite connections open on it
    clock,            \* loop.time() in seconds, when each held slot was
                      \* acquired, the call_later timers in the order they are
                      \* due, and the release that ran last (none: <<>>)
    job,              \* functions.execute: its position, the domain tasks it
                      \* created and what its caller made of its end
    app               \* the script main.py: its position, how main() ended, the
                      \* coroutine object of close() and the callbacks that
                      \* call_soon has queued and the loop has not run

vars == <<conn, responses, actions_pending, now, sem_throttle, max_nb_requests,
          sem_concurrency, timers, rate, nrate, rate2, task, call, attempts,
          session, op, files, clock, job, app>>

cacheVars == <<conn, responses, actions_pending, now, files>>

rateVars == <<max_nb_requests, rate, nrate, rate2>>

Row(text, t) == [response |-> text, last_accessed |-> t]

IdleTask == [pc |-> "idle", hist |-> <<>>, result |-> None, exc |-> None]

IdleCall == [pc |-> "idle", kind |-> None, urls |-> <<>>, no_concurrency |-> FALSE,
             skip_cache |-> FALSE, results |-> PyList, misses |-> <<>>,
             result |-> None, exc |-> None, at |-> 0]

\* set_rate: position, argument, acquires still to make, and its local delta
IdleRate == [pc |-> "idle", target |-> 0, remaining |-> 0, delta |-> 0]

\* the cache as a call finds it
CacheState == [conn |-> conn, responses |-> responses,
               actions_pending |-> actions_pending, files |-> files]

\* db_path: the location handed to the latest set_db_path
IdleOp == [n |-> 0, name |-> None, url |-> None, value |-> None, max_age |-> 0,
           exc |-> None, before |-> None, db_path |-> None]

\* a cache file: its committed table and the connections open on it
File(tbl, n) == [responses |-> tbl, connections |-> n]

\* the entry another program left in the other cache file
OtherTable == [k \in {Normalize(U1)} |-> Row(Dumps("other"), -1)]

\* the files when the one main() configures holds tbl, with n connections
Disk(tbl, n) == [p \in DbPaths |-> IF p = DB1 THEN File(tbl, n) ELSE File(OtherTable, 0)]

IdleClock == [time |-> 0, acquired |-> [t \in Tasks |-> None], due |-> <<>>,
              freed |-> <<>>]

\* main.py at loop.run_until_complete(main()), main() past its set_rate
IdleApp == [pc |-> "start", ended |-> None, close |-> None, ready |-> 0]

\* functions.execute not called yet, no domain task created
IdleJob == [pc |-> "idle", mode |-> None, created |-> 0, counted |-> 0,
            exc |-> None, status |-> None, dom |-> [d \in Domains |-> "none"]]

\* ---------------------------------------------------------------------------
\* RequestsCache
\* ---------------------------------------------------------------------------
\* mutant: the commit comes only once the counter is above the threshold
UpdateCount_Above(count) ==
    IF conn # None
    THEN IF actions_pending + count > COMMIT_THRESHOLD THEN 0
         ELSE actions_pending + count
    ELSE actions_pending

\* RequestsCache._update_count: the counter after count more writes
UpdateCount(count) ==
    IF conn # None
    THEN IF actions_pending + count >= COMMIT_THRESHOLD THEN 0
         ELSE actions_pending + count
    ELSE actions_pending

\* RequestsCache._update_count: whether count more writes reach the threshold
Commits(count) == conn # None /\ actions_pending + count >= COMMIT_THRESHOLD

\* the files once _update_count(count) has run with the table at tbl
Committed(tbl, count) ==
    IF Commits(count) THEN [files EXCEPT ![conn].responses = tbl] ELSE files

\* mutant: the ValueError of json.loads is not caught
Retrieve_Raises(url) ==
    IF conn # None
    THEN IF Normalize(url) \in DOMAIN responses
         THEN Loads(responses[Normalize(url)].response)
         ELSE None
    ELSE None

\* RequestsCache.retrieve
Retrieve(url) ==
    IF conn # None
    THEN IF Normalize(url) \in DOMAIN responses
         THEN LET text == responses[Normalize(url)].response
              IN  IF Loads(text) = ValueError THEN None ELSE Loads(text)
         ELSE None
    ELSE None

\* chunks(lst, n)
RECURSIVE Chunks(_, _)
Chunks(lst, n) ==
    IF lst = <<>> THEN <<>>
    ELSE IF Len(lst) <= n THEN <<lst>>
    ELSE <<SubSeq(lst, 1, n)>> \o Chunks(SubSeq(lst, n + 1, Len(lst)), n)

\* RequestsCache.retrieve_all: [hits |-> dict, missed |-> list]
RetrieveAll(urls) ==
    LET urls_chunks == Chunks(urls, SQL_MAX_VARIABLES)
        \* keys of the rows the SELECT ... IN (...) of chunk j returns
        rows(j) == {Normalize(urls_chunks[j][i]) : i \in 1..Len(urls_chunks[j])}
                     \cap DOMAIN responses
        cache_results ==
            IF conn # None
            THEN UNION {rows(j) : j \in 1..Len(urls_chunks)}
            ELSE {}
        hit(url) ==
            LET text == responses[Normalize(url)].response
            IN  IF Loads(text) = ValueError THEN None ELSE Loads(text)
        RECURSIVE Hits(_)
        Hits(n) ==
            IF n = 0 THEN <<>>
            ELSE IF Normalize(urls[n]) \in cache_results
                 THEN DictSet(Hits(n - 1), urls[n], hit(urls[n]))
                 ELSE Hits(n - 1)
    IN  [hits   |-> Hits(Len(urls)),
         missed |-> SelectSeq(urls, LAMBDA u : Normalize(u) \notin cache_results)]

\* mutant: a row that exists keeps its last_accessed
Upsert_KeepsAge(tbl, key, text) ==
    [k \in DOMAIN tbl \cup {key} |->
        IF k = key
        THEN Row(text, IF key \in DOMAIN tbl THEN tbl[key].last_accessed ELSE now)
        ELSE tbl[k]]

\* INSERT OR REPLACE INTO responses VALUES (key, text, datetime('now'))
Upsert(tbl, key, text) ==
    [k \in DOMAIN tbl \cup {key} |-> IF k = key THEN Row(text, now) ELSE tbl[k]]

\* mutant: the row is keyed by the URL as given
CreateOrUpdate_RawUrl(url, response) ==
    IF conn # None /\ response # None
    THEN [responses       |-> Upsert(responses, url, Dumps(response)),
          actions_pending |-> UpdateCount(1),
          files           |-> Committed(Upsert(responses, url, Dumps(response)), 1)]
    ELSE [responses |-> responses, actions_pending |-> actions_pending,
          files |-> files]

\* mutant: a None response is stored like any other
CreateOrUpdate_StoresNone(url, response) ==
    IF conn # None
    THEN [responses       |-> Upsert(responses, Normalize(url), Dumps(response)),
          actions_pending |-> UpdateCount(1),
          files           |-> Committed(Upsert(responses, Normalize(url),
                                               Dumps(response)), 1)]
    ELSE [responses |-> responses, actions_pending |-> actions_pending,
          files |-> files]

\* RequestsCache.create_or_update: [responses, actions_pending, files] afterwards
CreateOrUpdate(url, response) ==
    IF conn # None /\ response # None
    THEN [responses       |-> Upsert(responses, Normalize(url), Dumps(response)),
          actions_pending |-> UpdateCount(1),
          files           |-> Committed(Upsert(responses, Normalize(url),
                                               Dumps(response)), 1)]
    ELSE [responses |-> responses, actions_pending |-> actions_pending,
          files |-> files]

\* mutant: create_or_update_all stores nothing
CreateOrUpdateAll_Nothing(data) ==
    [responses |-> responses, actions_pending |-> actions_pending,
          files |-> files]

\* mutant: create_or_update_all stores the None responses too
CreateOrUpdateAll_StoresNone(data) ==
    LET RECURSIVE Exec(_)
        Exec(n) ==
            IF n = 0 THEN responses
            ELSE Upsert(Exec(n - 1), Normalize(data[n][1]), Dumps(data[n][2]))
    IN  IF conn # None
        THEN [responses       |-> Exec(Len(data)),
              actions_pending |-> UpdateCount(Len(data)),
              files           |-> Committed(Exec(Len(data)), Len(data))]
        ELSE [responses |-> responses, actions_pending |-> actions_pending,
          files |-> files]

\* RequestsCache.create_or_update_all: [responses, actions_pending] afterwards
CreateOrUpdateAll(data) ==
    LET values == SelectSeq(data, LAMBDA kv : kv[2] # None)
        RECURSIVE Exec(_)
        Exec(n) ==
            IF n = 0 THEN responses
            ELSE Upsert(Exec(n - 1), Normalize(values[n][1]), Dumps(values[n][2]))
    IN  IF conn # None
        THEN [responses       |-> Exec(Len(values)),
              actions_pending |-> UpdateCount(Len(values)),
              files           |-> Committed(Exec(Len(values)), Len(values))]
        ELSE [responses |-> responses, actions_pending |-> actions_pending,
          files |-> files]

\* ---------------------------------------------------------------------------
\* Initial state: RequestsCache() and HttpFetcher(max_nb_requests) just
\* constructed, no cache file open yet, every throttle slot free (the state
\* main() is in once its set_rate(args.rate) has returned)
\* ---------------------------------------------------------------------------
Init ==
    /\ conn = None
    /\ responses = <<>>
    /\ actions_pending = 0
    /\ now = 0
    /\ max_nb_requests \in Rates
    /\ sem_throttle = max_nb_requests
    /\ sem_concurrency = 1
    /\ timers = 0
    /\ rate = IdleRate
    /\ nrate = 0
    /\ rate2 = IdleRate
    /\ task = [t \in Tasks |-> IdleTask]
    /\ call = [c \in Calls |-> IdleCall]
    /\ attempts = 0
    /\ session = "open"
    /\ op = IdleOp
    /\ files = Disk(<<>>, 0)
    /\ clock = IdleClock
    /\ job = IdleJob
    /\ app = IdleApp

\* ---------------------------------------------------------------------------
\* RequestsCache.set_db_path
\* ---------------------------------------------------------------------------
\* rows a cache file may hold when it is opened: written by earlier runs
StoredTexts == {Dumps("old"), Dumps("empty"), CorruptText}

StoredTables ==
    UNION {[ks -> {Row(x, -1) : x \in StoredTexts}] :
               ks \in {x \in SUBSET Keys : Cardinality(x) <= MaxStoredRows}}

\* main() opens the cache file before the first fetch: earlier runs left it
\* holding tbl
SetDbPath(tbl) ==
    /\ conn = None
    /\ \A c \in Calls : call[c].pc = "idle"
    /\ conn' = DB1
    /\ responses' = tbl
    /\ files' = [files EXCEPT ![DB1] = File(tbl, 1)]
    /\ op' = [op EXCEPT !.db_path = DB1]
    /\ UNCHANGED <<actions_pending, now, sem_throttle, max_nb_requests,
                   sem_concurrency, timers, rate, nrate, rate2, task, call,
                   attempts, session,
                   clock, job, app>>

\* ---------------------------------------------------------------------------
\* RequestsCache.flush / close, and calls made on the cache directly
\* ---------------------------------------------------------------------------
\* DELETE FROM responses WHERE last_accessed <= datetime('now', '-max_age day')
Evict(tbl, max_age) ==
    LET deleted == {k \in DOMAIN tbl : tbl[k].last_accessed <= now - max_age}
    IN  [k \in DOMAIN tbl \ deleted |-> tbl[k]]

\* mutant: flush accepts every max_age
FlushRaises_Never(max_age) == FALSE

\* RequestsCache.flush: `if max_age < 0: raise ValueError`
FlushRaises(max_age) == max_age < 0

\* mutant: flush deletes the rows strictly older than max_age days
Flush_StrictlyOlder(max_age) ==
    IF FlushRaises(max_age)
    THEN [exc |-> ValueError, responses |-> responses,
          actions_pending |-> actions_pending,
          files |-> files]
    ELSE IF conn # None
         THEN [exc |-> None, responses |-> Evict(responses, max_age + 1),
               actions_pending |-> UpdateCount(1),
               files |-> Committed(Evict(responses, max_age + 1), 1)]
         ELSE [exc |-> None, responses |-> responses,
               actions_pending |-> actions_pending,
          files |-> files]

\* RequestsCache.flush: [exc, responses, actions_pending] afterwards
Flush(max_age) ==
    IF FlushRaises(max_age)
    THEN [exc |-> ValueError, responses |-> responses,
          actions_pending |-> actions_pending,
          files |-> files]
    ELSE IF conn # None
         THEN [exc |-> None, responses |-> Evict(responses, max_age),
               actions_pending |-> UpdateCount(1),
               files |-> Committed(Evict(responses, max_age), 1)]
         ELSE [exc |-> None, responses |-> responses,
               actions_pending |-> actions_pending,
          files |-> files]

\* mutant: close releases the storage without committing
CacheClose_NoCommit(s) ==
    IF s.conn # None
    THEN [conn |-> None, responses |-> s.responses, actions_pending |-> 0,
          files |-> [s.files EXCEPT ![s.conn].connections = @ - 1]]
    ELSE s

\* RequestsCache.close on the cache s: commit when writes are pending, close
\* the connection (what was not committed is rolled back); the cache afterwards
CacheClose(s) ==
    IF s.conn # None
    THEN [conn |-> None, responses |-> s.responses, actions_pending |-> 0,
          files |-> [s.files EXCEPT ![s.conn] =
                        File(IF s.actions_pending > 0 THEN s.responses ELSE @.responses,
                             @.connections - 1)]]
    ELSE s

\* the record of a call: its number, name and arguments, and the cache before
Called(name) ==
    [IdleOp EXCEPT !.n = op.n + 1, !.name = name, !.before = CacheState,
                   !.db_path = op.db_path]

\* a caller's RequestsCache.create_or_update(url, response)
CallCreateOrUpdate(url, response) ==
    LET write == CreateOrUpdate(url, response)
    IN  /\ responses' = write.responses
        /\ actions_pending' = write.actions_pending
        /\ files' = write.files
        /\ op' = [Called("create_or_update") EXCEPT !.url = url, !.value = response]
        /\ UNCHANGED <<conn, now, rateVars, sem_throttle, sem_concurrency, timers,
                       task, call, attempts, session,
                       clock, job, app>>

\* a caller's RequestsCache.flush(max_age)
CallFlush(max_age) ==
    LET flushed == Flush(max_age)
    IN  /\ responses' = flushed.responses
        /\ actions_pending' = flushed.actions_pending
        /\ files' = flushed.files
        /\ op' = [Called("flush") EXCEPT !.max_age = max_age, !.exc = flushed.exc]
        /\ UNCHANGED <<conn, now, rateVars, sem_throttle, sem_concurrency, timers,
                       task, call, attempts, session,
                       clock, job, app>>

\* mutant: close releases the storage first; the eviction finds no storage
Close_CacheFirst ==
    /\ responses' = responses
    /\ actions_pending' = IF conn # None THEN 0 ELSE actions_pending
    /\ conn' = None
    /\ files' = CacheClose(CacheState).files
    /\ session' = None
    /\ op' = [Called("close") EXCEPT !.max_age = CACHE_DATA_LIFESPAN]
    /\ UNCHANGED <<now, rateVars, sem_throttle, sem_concurrency, timers, task, call,
                   attempts,
                   clock, job, app>>

\* CachedDataFetcher.close: RequestsCache.flush(CACHE_DATA_LIFESPAN), then
\* RequestsCache.close (commit when writes are pending, release the storage),
\* then HttpFetcher.close
Close ==
    LET flushed == Flush(CACHE_DATA_LIFESPAN)
        closed  == CacheClose([conn |-> conn, responses |-> flushed.responses,
                               actions_pending |-> flushed.actions_pending,
                               files |-> flushed.files])
    IN  /\ responses' = closed.responses
        /\ actions_pending' = closed.actions_pending
        /\ conn' = closed.conn
        /\ files' = closed.files
        /\ session' = None
        /\ op' = [Called("close") EXCEPT !.max_age = CACHE_DATA_LIFESPAN]
        /\ UNCHANGED <<now, rateVars, sem_throttle, sem_concurrency, timers, task,
                       call, attempts,
                       clock, job, app>>

\* a caller's RequestsCache.close()
CallClose ==
    LET closed == CacheClose(CacheState)
    IN  /\ conn' = closed.conn
        /\ responses' = closed.responses
        /\ actions_pending' = closed.actions_pending
        /\ files' = closed.files
        /\ op' = Called("RequestsCache.close")
        /\ UNCHANGED <<now, rateVars, sem_throttle, sem_concurrency, timers, task,
                       call, attempts, session, clock, job, app>>

\* mutant: the new file is opened without closing the storage in use
SetDbPathTo_NoClose(db_path) ==
    IF db_path # None
    THEN [conn |-> db_path, responses |-> files[db_path].responses,
          actions_pending |-> actions_pending,
          files |-> [files EXCEPT ![db_path].connections = @ + 1]]
    ELSE CacheState

\* RequestsCache.set_db_path(db_path): the cache afterwards. db_path is None
\* or names a file in a directory, as main() builds it; sqlite3.connect sees
\* what is committed to the file.
SetDbPathTo(db_path) ==
    IF db_path # None
    THEN LET closed == CacheClose(CacheState)
         IN  [conn |-> db_path, responses |-> closed.files[db_path].responses,
              actions_pending |-> closed.actions_pending,
              files |-> [closed.files EXCEPT ![db_path].connections = @ + 1]]
    ELSE CacheState

\* a caller's RequestsCache.set_db_path(db_path)
CallSetDbPath(db_path) ==
    LET set == SetDbPathTo(db_path)
    IN  /\ conn' = set.conn
        /\ responses' = set.responses
        /\ actions_pending' = set.actions_pending
        /\ files' = set.files
        /\ op' = [Called("set_db_path") EXCEPT !.db_path = db_path]
        /\ UNCHANGED <<now, rateVars, sem_throttle, sem_concurrency, timers, task,
                       call, attempts, session, clock, job, app>>

\* a caller's RequestsCache.create_or_update_all(data)
CallCreateOrUpdateAll(data) ==
    LET write == CreateOrUpdateAll(data)
    IN  /\ responses' = write.responses
        /\ actions_pending' = write.actions_pending
        /\ files' = write.files
        /\ op' = [Called("create_or_update_all") EXCEPT !.value = data]
        /\ UNCHANGED <<conn, now, rateVars, sem_throttle, sem_concurrency, timers,
                       task, call, attempts, session, clock, job, app>>

\* ---------------------------------------------------------------------------
\* HttpFetcher
\* ---------------------------------------------------------------------------
Min(a, b) == IF a <= b THEN a ELSE b

\* mutant: a lowering takes the free slots and returns without waiting for
\* the slots that requests hold
SetRate_LowerNoWait(max) ==
    LET delta == max - max_nb_requests
        taken == Min(sem_throttle, -delta)
    IN  /\ rate.pc = "idle"
        /\ nrate < MaxSetRate
        /\ nrate' = nrate + 1
        /\ sem_throttle' = IF delta >= 0 THEN sem_throttle + delta
                                         ELSE sem_throttle - taken
        /\ max_nb_requests' = max
        /\ rate' = [IdleRate EXCEPT !.delta = delta]
        /\ UNCHANGED <<cacheVars, sem_concurrency, timers, task, call, attempts,
                       session, op, rate2,
                       clock, job, app>>

\* mutant: a raising records the new ceiling and releases no slot
SetRate_RaiseNoRelease(max) ==
    LET delta == max - max_nb_requests
        taken == Min(sem_throttle, -delta)
    IN  /\ rate.pc = "idle"
        /\ nrate < MaxSetRate
        /\ nrate' = nrate + 1
        /\ IF delta >= 0
           THEN /\ sem_throttle' = sem_throttle
                /\ max_nb_requests' = max
                /\ rate' = [IdleRate EXCEPT !.delta = delta]
           ELSE /\ sem_throttle' = sem_throttle - taken
                /\ IF taken = -delta
                   THEN /\ max_nb_requests' = max
                        /\ rate' = [IdleRate EXCEPT !.delta = delta]
                   ELSE /\ max_nb_requests' = max_nb_requests
                        /\ rate' = [pc |-> "acquiring", target |-> max,
                                    remaining |-> -delta - taken, delta |-> delta]
        /\ UNCHANGED <<cacheVars, sem_concurrency, timers, task, call, attempts,
                       session, op, rate2,
                       clock, job, app>>

\* HttpFetcher.set_rate up to its first suspension
SetRate(max) ==
    LET delta == max - max_nb_requests
        taken == Min(sem_throttle, -delta)
    IN  /\ rate.pc = "idle"
        /\ nrate < MaxSetRate
        /\ nrate' = nrate + 1
        /\ IF delta >= 0
           THEN /\ sem_throttle' = sem_throttle + delta
                /\ max_nb_requests' = max
                /\ rate' = [IdleRate EXCEPT !.delta = delta]
           ELSE /\ sem_throttle' = sem_throttle - taken
                /\ IF taken = -delta
                   THEN /\ max_nb_requests' = max
                        /\ rate' = [IdleRate EXCEPT !.delta = delta]
                   ELSE /\ max_nb_requests' = max_nb_requests
                        /\ rate' = [pc |-> "acquiring", target |-> max,
                                    remaining |-> -delta - taken, delta |-> delta]
        /\ UNCHANGED <<cacheVars, sem_concurrency, timers, task, call, attempts, session, op,
                       rate2, clock, job, app>>

\* HttpFetcher.set_rate resumed by a released slot: the loop goes on acquiring
\* without suspending for as long as slots are free
SetRateAcquire ==
    LET taken == Min(sem_throttle, rate.remaining)
    IN  /\ rate.pc = "acquiring"
        /\ sem_throttle > 0
        /\ sem_throttle' = sem_throttle - taken
        /\ IF rate.remaining = taken
           THEN /\ max_nb_requests' = rate.target
                /\ rate' = [IdleRate EXCEPT !.delta = rate.delta]
           ELSE /\ max_nb_requests' = max_nb_requests
                /\ rate' = [rate EXCEPT !.remaining = @ - taken]
        /\ UNCHANGED <<cacheVars, nrate, rate2, sem_concurrency, timers, task, call,
                       attempts, session, op,
                       clock, job, app>>

\* HttpFetcher.set_rate called while an earlier set_rate is suspended in its
\* acquire loop, up to its first suspension: delta is taken from the ceiling
\* the earlier call has not replaced yet
OverlapSetRate(max) ==
    LET delta == max - max_nb_requests
        taken == Min(sem_throttle, -delta)
        ended == [pc |-> "idle", target |-> max, remaining |-> 0, delta |-> delta]
    IN  /\ rate.pc = "acquiring"
        /\ rate2.pc = "idle" /\ rate2.target = 0
        /\ IF delta >= 0
           THEN /\ sem_throttle' = sem_throttle + delta
                /\ max_nb_requests' = max
                /\ rate2' = ended
           ELSE /\ sem_throttle' = sem_throttle - taken
                /\ IF taken = -delta
                   THEN /\ max_nb_requests' = max
                        /\ rate2' = ended
                   ELSE /\ max_nb_requests' = max_nb_requests
                        /\ rate2' = [pc |-> "acquiring", target |-> max,
                                     remaining |-> -delta - taken, delta |-> delta]
        /\ UNCHANGED <<cacheVars, rate, nrate, sem_concurrency, timers, task, call,
                       attempts, session, op, clock, job, app>>

\* the overlapping set_rate resumed by a released slot
OverlapSetRateAcquire ==
    LET taken == Min(sem_throttle, rate2.remaining)
    IN  /\ rate2.pc = "acquiring"
        /\ sem_throttle > 0
        /\ sem_throttle' = sem_throttle - taken
        /\ IF rate2.remaining = taken
           THEN /\ max_nb_requests' = rate2.target
                /\ rate2' = [rate2 EXCEPT !.pc = "idle", !.remaining = 0]
           ELSE /\ max_nb_requests' = max_nb_requests
                /\ rate2' = [rate2 EXCEPT !.remaining = @ - taken]
        /\ UNCHANGED <<cacheVars, rate, nrate, sem_concurrency, timers, task, call,
                       attempts, session, op, clock, job, app>>

\* the callback scheduled by loop.call_later(time_period, sem_throttle.release)
TimerFire ==
    /\ timers > 0
    /\ timers' = timers - 1
    /\ sem_throttle' = sem_throttle + 1
    /\ clock' = [clock EXCEPT !.due = Tail(@),
                              !.freed = <<[acquired |-> Head(clock.due).acquired,
                                          at       |-> Head(clock.due).at,
                                          released |-> clock.time]>>]
    /\ UNCHANGED <<cacheVars, rateVars, sem_concurrency, task, call, attempts,
                   session, op,
                   job, app>>

\* the event loop runs a call_later callback no sooner than it is due
TimerDue == clock.due # <<>> /\ Head(clock.due).at <= clock.time

\* a second passes on the clock of the event loop
Tick ==
    /\ clock.time < MaxTime
    /\ clock' = [clock EXCEPT !.time = @ + 1]
    /\ UNCHANGED <<cacheVars, rateVars, sem_throttle, sem_concurrency, timers, task,
                   call, attempts, session, op, job, app>>

Exclusive(t) == call[t[1]].no_concurrency

TaskUrl(t) == call[t[1]].misses[t[2]]

\* mutant: the exclusive lock is entered without waiting for it
TaskLock_NoWait(t) ==
    /\ task[t].pc = "lock"
    /\ sem_concurrency' = sem_concurrency - 1
    /\ task' = [task EXCEPT ![t].pc = "acquire"]
    /\ UNCHANGED <<cacheVars, rateVars, sem_throttle, timers, call, attempts, session, op,
                   clock, job, app>>

\* HttpFetcher.fetch: async with self._sem_concurrency
TaskLock(t) ==
    /\ task[t].pc = "lock"
    /\ sem_concurrency > 0
    /\ sem_concurrency' = sem_concurrency - 1
    /\ task' = [task EXCEPT ![t].pc = "acquire"]
    /\ UNCHANGED <<cacheVars, rateVars, sem_throttle, timers, call, attempts, session, op,
                   clock, job, app>>

\* mutant: the request is issued without acquiring a throttle slot
TaskAcquire_NoSlot(t) ==
    /\ task[t].pc = "acquire"
    /\ attempts' = attempts + 1
    /\ task' = [task EXCEPT ![t].pc = "inflight"]
    /\ clock' = [clock EXCEPT !.acquired[t] = clock.time]
    /\ UNCHANGED <<cacheVars, rateVars, sem_throttle, sem_concurrency, timers, call,
                   session, op,
                   job, app>>

\* HttpFetcher._fetch_retry: await self._sem_throttle.acquire(), session.get
TaskAcquire(t) ==
    /\ task[t].pc = "acquire"
    /\ sem_throttle > 0
    /\ session # None
    /\ sem_throttle' = sem_throttle - 1
    /\ attempts' = attempts + 1
    /\ task' = [task EXCEPT ![t].pc = "inflight"]
    /\ clock' = [clock EXCEPT !.acquired[t] = clock.time]
    /\ UNCHANGED <<cacheVars, rateVars, sem_concurrency, timers, call, session, op,
                   job, app>>

\* mutant: the exception of a closed transport leaves the exclusive lock held
TaskAcquireClosed_KeepsLock(t) ==
    /\ task[t].pc = "acquire"
    /\ sem_throttle > 0
    /\ session = None
    /\ sem_throttle' = sem_throttle - 1
    /\ task' = [task EXCEPT ![t].pc = "done", ![t].exc = "AttributeError"]
    /\ call' = [call EXCEPT ![t[1]].pc = "done", ![t[1]].at = now,
                           ![t[1]].exc = "AttributeError"]
    /\ UNCHANGED <<cacheVars, rateVars, sem_concurrency, timers, attempts, session, op,
                   clock, job, app>>

\* HttpFetcher._fetch_retry on a closed transport: the slot is acquired, then
\* self._session.get raises AttributeError (_session is None), which neither
\* backoff nor HttpFetcher.fetch catches: it reaches the caller
TaskAcquireClosed(t) ==
    /\ task[t].pc = "acquire"
    /\ sem_throttle > 0
    /\ session = None
    /\ sem_throttle' = sem_throttle - 1
    /\ task' = [task EXCEPT ![t].pc = "done", ![t].exc = "AttributeError"]
    /\ sem_concurrency' = IF Exclusive(t) THEN sem_concurrency + 1 ELSE sem_concurrency
    /\ call' = [call EXCEPT ![t[1]].pc = "done", ![t[1]].at = now,
                           ![t[1]].exc = "AttributeError"]
    /\ UNCHANGED <<cacheVars, rateVars, timers, attempts, session, op,
                   clock, job, app>>

\* backoff.on_exception: the sleep between two tries is over
TaskBackoff(t) ==
    /\ task[t].pc = "backoff"
    /\ task' = [task EXCEPT ![t].pc = "acquire"]
    /\ UNCHANGED <<cacheVars, rateVars, sem_throttle, sem_concurrency, timers,
                   call, attempts, session, op,
                   clock, job, app>>

\* mutant: the release is scheduled with no delay
ReleaseAt_Now == clock.time

\* loop.call_later(self._time_period, ...): when the callback is due
ReleaseAt == clock.time + TIME_PERIOD

\* HttpFetcher._fetch_retry: is call_later(release) reached on this outcome
ReleaseScheduled(o) == o # ConnError

\* HttpFetcher.fetch: what the coroutine returns when the last outcome is o
FetchResult(o) ==
    IF o # ConnError /\ Classify(o) = "VALID" THEN Body(o) ELSE None

\* mutant: the result is stored whether or not skip_cache is set
FetchStore_IgnoresSkip(c, result) ==
    IF result # None
    THEN CreateOrUpdate(call[c].urls[1], result)
    ELSE [responses |-> responses, actions_pending |-> actions_pending,
          files |-> files]

\* CachedDataFetcher.fetch after the transport returned result:
\* [responses, actions_pending] afterwards
FetchStore(c, result) ==
    IF ~call[c].skip_cache /\ result # None
    THEN CreateOrUpdate(call[c].urls[1], result)
    ELSE [responses |-> responses, actions_pending |-> actions_pending,
          files |-> files]

\* mutant: the exclusive lock is given back whenever an attempt ends, and
\* taken for good by the first attempt alone
TaskResponse_UnlocksOnRetry(t, o) ==
    LET c     == t[1]
        h     == Append(task[t].hist, o)
        again == Retried(o) /\ ~GiveUp(Len(h))
        res   == FetchResult(o)
        store == FetchStore(c, res)
    IN  /\ task[t].pc = "inflight"
        /\ timers' = IF ReleaseScheduled(o) THEN timers + 1 ELSE timers
        /\ clock' = [clock EXCEPT
               !.acquired[t] = None,
               !.due = IF ReleaseScheduled(o)
                       THEN Append(@, [acquired |-> clock.acquired[t], at |-> ReleaseAt])
                       ELSE @]
        /\ sem_concurrency' =
               IF Exclusive(t) /\ Len(h) = 1 THEN sem_concurrency + 1 ELSE sem_concurrency
        /\ IF again
           THEN /\ task' = [task EXCEPT ![t].pc = "backoff", ![t].hist = h]
                /\ UNCHANGED <<call, responses, actions_pending, files>>
           ELSE /\ task' = [task EXCEPT ![t].pc = "done", ![t].hist = h,
                                        ![t].result = res]
                /\ IF call[c].kind = "fetch"
                   THEN /\ call' = [call EXCEPT ![c].pc = "done", ![c].at = now,
                                                     ![c].result = res]
                        /\ responses' = store.responses
                        /\ actions_pending' = store.actions_pending
                        /\ files' = store.files
                   ELSE UNCHANGED <<call, responses, actions_pending, files>>
        /\ UNCHANGED <<conn, now, rateVars, sem_throttle, attempts, session, op,
                       job, app>>

\* HttpFetcher._fetch_retry from the outcome o of the request in flight (a
\* response, headers and body, or a connection error raised by session.get),
\* through backoff and HttpFetcher.fetch, and for a CachedDataFetcher.fetch
\* call on to its return
TaskResponse(t, o) ==
    LET c     == t[1]
        h     == Append(task[t].hist, o)
        again == Retried(o) /\ ~GiveUp(Len(h))
        res   == FetchResult(o)
        store == FetchStore(c, res)
    IN  /\ task[t].pc = "inflight"
        /\ timers' = IF ReleaseScheduled(o) THEN timers + 1 ELSE timers
        /\ clock' = [clock EXCEPT
               !.acquired[t] = None,
               !.due = IF ReleaseScheduled(o)
                       THEN Append(@, [acquired |-> clock.acquired[t], at |-> ReleaseAt])
                       ELSE @]
        /\ IF again
           THEN /\ task' = [task EXCEPT ![t].pc = "backoff", ![t].hist = h]
                /\ UNCHANGED <<sem_concurrency, call, responses, actions_pending, files>>
           ELSE /\ task' = [task EXCEPT ![t].pc = "done", ![t].hist = h,
                                        ![t].result = res]
                /\ sem_concurrency' =
                       IF Exclusive(t) THEN sem_concurrency + 1 ELSE sem_concurrency
                /\ IF call[c].kind = "fetch"
                   THEN /\ call' = [call EXCEPT ![c].pc = "done", ![c].at = now,
                                                     ![c].result = res]
                        /\ responses' = store.responses
                        /\ actions_pending' = store.actions_pending
                        /\ files' = store.files
                   ELSE UNCHANGED <<call, responses, actions_pending, files>>
        /\ UNCHANGED <<conn, now, rateVars, sem_throttle, attempts, session, op,
                       job, app>>

\* ---------------------------------------------------------------------------
\* CachedDataFetcher
\* ---------------------------------------------------------------------------
\* calls are made in the order of their numbers
MayStart(c) ==
    /\ call[c].pc = "idle"
    /\ IF c = 1 THEN TRUE ELSE call[c - 1].pc # "idle"

\* mutant: no_concurrency is ignored, every fetch is pooled
Spawned_Pooled(nc) == [IdleTask EXCEPT !.pc = "acquire"]

\* the state in which an HttpFetcher.fetch coroutine is created
Spawned(nc) == [IdleTask EXCEPT !.pc = IF nc THEN "lock" ELSE "acquire"]

\* CachedDataFetcher.fetch: `if not result`
NeedsTransport(result) == ~Truthy(result)

\* CachedDataFetcher.fetch up to its return (a hit) or to the transport call
CallFetch(c, url, nc, sc) ==
    LET result == IF ~sc THEN Retrieve(url) ELSE None
        me     == [IdleCall EXCEPT !.kind = "fetch", !.urls = <<url>>,
                                   !.no_concurrency = nc, !.skip_cache = sc]
        store  == IF ~sc /\ result # None
                  THEN CreateOrUpdate(url, result)
                  ELSE [responses |-> responses, actions_pending |-> actions_pending,
          files |-> files]
    IN  /\ MayStart(c)
        /\ IF NeedsTransport(result)
           THEN /\ call' = [call EXCEPT ![c] = [me EXCEPT !.pc = "waiting",
                                                          !.misses = <<url>>]]
                /\ task' = [task EXCEPT ![<<c, 1>>] = Spawned(nc)]
                /\ UNCHANGED <<responses, actions_pending, files>>
           ELSE /\ call' = [call EXCEPT ![c] = [me EXCEPT !.pc = "done", !.at = now,
                                                          !.result = result]]
                /\ responses' = store.responses
                /\ actions_pending' = store.actions_pending
                /\ files' = store.files
                /\ UNCHANGED task
        /\ UNCHANGED <<conn, now, rateVars, sem_throttle, sem_concurrency, timers,
                       attempts, session, op,
                       clock, job, app>>

\* CachedDataFetcher.fetch_all up to asyncio.gather in HttpFetcher.fetch_all
CallFetchAll(c, urls, nc, sc) ==
    LET cached  == RetrieveAll(urls)
        results == IF ~sc THEN PyDict(cached.hits) ELSE PyList
        misses  == IF ~sc THEN cached.missed ELSE urls
    IN  /\ MayStart(c)
        /\ call' = [call EXCEPT ![c] =
               [IdleCall EXCEPT !.pc = "gather", !.kind = "fetch_all", !.urls = urls,
                                !.no_concurrency = nc, !.skip_cache = sc,
                                !.results = results, !.misses = misses]]
        /\ task' = [t \in Tasks |->
               IF t[1] = c /\ t[2] <= Len(misses) THEN Spawned(nc) ELSE task[t]]
        /\ UNCHANGED <<cacheVars, rateVars, sem_throttle, sem_concurrency, timers,
                       attempts, session, op,
                       clock, job, app>>

\* HttpFetcher.fetch_all: the dict built from zip(urls, responses)
ApiResults(c) ==
    DictUpdate(<<>>, [i \in 1..Len(call[c].misses) |->
                          <<call[c].misses[i], task[<<c, i>>].result>>])

\* results.update(api_results): the list [] has no update
UpdateRaises(results) == results.type # "dict"

\* CachedDataFetcher.fetch_all once gather has every response
FetchAllReturn(c) ==
    LET items == DictUpdate(call[c].results.items, ApiResults(c))
        store == IF ~call[c].skip_cache
                 THEN CreateOrUpdateAll(items)
                 ELSE [responses |-> responses, actions_pending |-> actions_pending,
          files |-> files]
    IN  /\ call[c].pc = "gather"
        /\ \A i \in 1..Len(call[c].misses) : task[<<c, i>>].pc = "done"
        /\ IF UpdateRaises(call[c].results)
           THEN /\ call' = [call EXCEPT ![c].pc = "done", ![c].at = now,
                                            ![c].exc = "AttributeError"]
                /\ UNCHANGED <<responses, actions_pending, files>>
           ELSE /\ call' = [call EXCEPT ![c].pc = "done", ![c].at = now,
                                            ![c].results = PyDict(items)]
                /\ responses' = store.responses
                /\ actions_pending' = store.actions_pending
                /\ files' = store.files
        /\ UNCHANGED <<conn, now, rateVars, sem_throttle, sem_concurrency, timers,
                       task, attempts, session, op,
                       clock, job, app>>

\* ---------------------------------------------------------------------------
\* functions.execute, its domain tasks, its progress bar and its callers
\* ---------------------------------------------------------------------------
\* the last domain of the chunk that follows the first `created` domains
ChunkEnd(created) == Min(created + ChunkSize, NDomains)

\* execute at the head of `for chunk in chunks(domains, 20)`: ensure_future
\* creates a dom_results task for every domain of the next chunk; with no
\* chunk left the loop ends, execute returns and its caller reports 'Job done!'
NextChunk(j) ==
    IF j.created < NDomains
    THEN [j EXCEPT !.pc = "await", !.created = ChunkEnd(j.created),
                   !.dom = [d \in Domains |->
                               IF d > j.created /\ d <= ChunkEnd(j.created)
                               THEN "scheduled" ELSE j.dom[d]]]
    ELSE [j EXCEPT !.pc = "returned", !.status = "Job done!"]

\* mutant: the abort cancels the domain tasks that have not finished
Aborted_CancelsTasks(j) ==
    [j EXCEPT !.pc = "raised", !.exc = "UserAbortException",
              !.status = "Request Cancelled!",
              !.dom = [d \in Domains |->
                          IF j.dom[d] \in {"scheduled", "fetching"}
                          THEN "cancelled" ELSE j.dom[d]]]

\* pbar.increment() raised UserAbortException: it leaves both loops, `with
\* pbar` and execute; MainWindow._on_press catches it and reports
\* 'Request Cancelled!'
Aborted(j) ==
    [j EXCEPT !.pc = "raised", !.exc = "UserAbortException",
              !.status = "Request Cancelled!"]

\* `await task` raised what the domain task raised: it leaves execute, and no
\* except clause of the caller catches it
Failed(j) == [j EXCEPT !.pc = "raised", !.exc = "Exception", !.status = "propagated"]

\* the sink whose increment can raise: WxPythonProgressBar, in mode 'ui'
MayAbort(mode) == mode = "ui"

\* the event loop goes on running tasks: always under the GUI, and in a
\* headless run until main() is over
LoopRuns == job.mode = "ui" \/ job.pc \notin {"returned", "raised"}

\* a caller's execute(pbar, mode), up to its first `await task`
CallExecute(mode) ==
    /\ job.pc = "idle"
    /\ job' = NextChunk([job EXCEPT !.mode = mode])
    /\ UNCHANGED <<cacheVars, rateVars, sem_throttle, sem_concurrency, timers, task,
                   call, attempts, session, op, clock, app>>

\* a dom_results task starts: it runs up to `await fetcher.fetch(url_visits)`
DomRun(d) ==
    /\ LoopRuns
    /\ job.dom[d] = "scheduled"
    /\ job' = [job EXCEPT !.dom[d] = "fetching"]
    /\ UNCHANGED <<cacheVars, rateVars, sem_throttle, sem_concurrency, timers, task,
                   call, attempts, session, op, clock, app>>

\* the fetch of a dom_results task is over: the task returns its rows, or
\* raises
DomEnd(d, ok) ==
    /\ LoopRuns
    /\ job.dom[d] = "fetching"
    /\ job' = [job EXCEPT !.dom[d] = IF ok THEN "done" ELSE "failed"]
    /\ UNCHANGED <<cacheVars, rateVars, sem_throttle, sem_concurrency, timers, task,
                   call, attempts, session, op, clock, app>>

\* execute resumed by the task it awaits: add_rows, pbar.increment() (cont is
\* what the progress dialog answers), then the next task of the chunk or the
\* next chunk
ExecAwait(cont) ==
    LET d == job.counted + 1
        counted == [job EXCEPT !.counted = d]
    IN  /\ job.pc = "await"
        /\ job.dom[d] \in {"done", "failed"}
        /\ cont \/ MayAbort(job.mode)
        /\ job' = IF job.dom[d] = "failed" THEN Failed(job)
                  ELSE IF ~cont THEN Aborted(job)
                  ELSE IF d = job.created THEN NextChunk(counted)
                  ELSE counted
        /\ UNCHANGED <<cacheVars, rateVars, sem_throttle, sem_concurrency, timers, task,
                       call, attempts, session, op, clock, app>>

\* ---------------------------------------------------------------------------
\* The script main.py
\* ---------------------------------------------------------------------------
\* main(): fetcher.set_db_path(db_path), with db_path None under --nocache
MainConfigure(nocache) ==
    LET db_path == IF nocache THEN None ELSE DB1
        set     == SetDbPathTo(db_path)
    IN  /\ app.pc = "start"
        /\ app' = [app EXCEPT !.pc = "main"]
        /\ conn' = set.conn
        /\ responses' = set.responses
        /\ actions_pending' = set.actions_pending
        /\ files' = set.files
        /\ op' = [Called("set_db_path") EXCEPT !.db_path = db_path]
        /\ UNCHANGED <<now, rateVars, sem_throttle, sem_concurrency, timers, task,
                       call, attempts, session, clock, job>>

\* main() is over and run_until_complete with it: in a headless run when
\* execute has returned or raised, under the GUI when app.MainLoop() returns
\* (the window is closed) or raises
MainEnd(how) ==
    /\ app.pc = "main"
    /\ job.mode = "headless" => job.pc = how
    /\ app' = [app EXCEPT !.pc = "finally", !.ended = how]
    /\ UNCHANGED <<cacheVars, rateVars, sem_throttle, sem_concurrency, timers, task,
                   call, attempts, session, op, clock, job>>

\* finally: loop.call_soon(main_fetcher.close()). The call close() makes the
\* coroutine object and runs none of its body; call_soon queues it as a
\* callback, or with the loop in debug mode raises TypeError. The loop is not
\* run again: the script ends here.
Finally(debug) ==
    /\ app.pc = "finally"
    /\ app' = [app EXCEPT !.pc = "ending", !.close = "created",
                          !.ready = IF debug THEN @ ELSE @ + 1]
    /\ UNCHANGED <<cacheVars, rateVars, sem_throttle, sem_concurrency, timers, task,
                   call, attempts, session, op, clock, job>>

\* the interpreter exits: RequestsCache.__del__ (self.close()) runs if the
\* cache object is finalized, which the interpreter does not promise
Exit(finalized) ==
    LET closed == IF finalized THEN CacheClose(CacheState) ELSE CacheState
    IN  /\ app.pc = "ending"
        /\ app' = [app EXCEPT !.pc = "exited"]
        /\ conn' = closed.conn
        /\ responses' = closed.responses
        /\ actions_pending' = closed.actions_pending
        /\ files' = closed.files
        /\ UNCHANGED <<now, rateVars, sem_throttle, sem_concurrency, timers, task,
                       call, attempts, session, op, clock, job>>

\* ---------------------------------------------------------------------------
\* The cache in mid-run
\* ---------------------------------------------------------------------------
\* last_accessed of the rows of earlier runs: one day beyond the retention
\* limit, on it, one day inside it, and yesterday
Ages == {-CACHE_DATA_LIFESPAN - 1, -CACHE_DATA_LIFESPAN, 1 - CACHE_DATA_LIFESPAN, -1}

AgedTables ==
    UNION {[ks -> {Row(x, a) : x \in StoredTexts, a \in Ages}] :
               ks \in {x \in SUBSET {Normalize(u) : u \in CacheUrls} :
                           Cardinality(x) <= MaxStoredRows}}

\* writes pending since the last commit: none, or one short of the threshold
PendingStarts == {0, COMMIT_THRESHOLD - 1}

\* the responses a caller hands to create_or_update
PutValues == {"fresh", "empty", None}

\* the ages a caller hands to flush
FlushAges == {-1, 0, 1, CACHE_DATA_LIFESPAN}

\* the dicts a caller hands to create_or_update_all: up to two entries
PutDicts ==
    {<<>>} \cup {<<<<U1, v>>>> : v \in PutValues}
           \cup {<<<<U1, v>>, <<u, w>>>> : v \in PutValues, u \in {U2, U4}, w \in PutValues}

\* RequestsCache either just constructed or configured by set_db_path and
\* used for a while; HttpFetcher as constructed
CacheInit ==
    /\ \/ conn = None /\ responses = <<>> /\ actions_pending = 0
       \/ conn = DB1 /\ responses \in AgedTables /\ actions_pending \in PendingStarts
    /\ files = IF conn = None THEN Disk(<<>>, 0)
               ELSE Disk(IF actions_pending = 0 THEN responses ELSE <<>>, 1)
    /\ op = [IdleOp EXCEPT !.db_path = conn]
    /\ clock = IdleClock
    /\ job = IdleJob
    /\ app = IdleApp
    /\ now = 0
    /\ max_nb_requests = MaxRate
    /\ sem_throttle = max_nb_requests
    /\ sem_concurrency = 1
    /\ timers = 0
    /\ rate = IdleRate
    /\ nrate = 0
    /\ rate2 = IdleRate
    /\ task = [t \in Tasks |-> IdleTask]
    /\ call = [c \in Calls |-> IdleCall]
    /\ attempts = 0
    /\ session = "open"

\* the days that pass between two steps of a long run
PassDays == {CACHE_DATA_LIFESPAN - 1, CACHE_DATA_LIFESPAN}

\* datetime('now') moves on by d days
Pass(d) ==
    /\ now + d <= MaxDays
    /\ now' = now + d
    /\ UNCHANGED <<conn, responses, actions_pending, files, rateVars, sem_throttle,
                   sem_concurrency, timers, task, call, attempts, session, op,
                   clock, job, app>>

\* the URLs of the calls of a long run: two RequestKeys
RetentionUrls == {U1, U4}

RetentionLists == UNION {[1..n -> RetentionUrls] : n \in 1..MaxUrls}

\* the cache files of a long run: rows of every age under these keys
RetentionTables ==
    {tbl \in AgedTables : DOMAIN tbl \subseteq {Normalize(u) : u \in RetentionUrls}}

\* what the transport is answered in a long run: a payload, a fatal status,
\* a retriable status
RetentionOutcomes == {Resp(200, TRUE), Resp(403, FALSE), Resp(503, FALSE)}

\* the dicts handed to create_or_update_all with URLs that carry a credential
CredentialDicts ==
    {<<<<u, v>>>> : u \in CredentialUrls, v \in {"fresh", None}}
        \cup {<<<<u, "fresh">>, <<U3, v>>>> : u \in {U1, U7}, v \in {"fresh", None}}

\* what the transport is answered: a payload or a fatal status
CredentialOutcomes == {Resp(200, TRUE), Resp(403, FALSE)}

CredentialLists == UNION {[1..n -> CredentialUrls] : n \in 1..MaxUrls}

\* ---------------------------------------------------------------------------
\* Specifications
\* ---------------------------------------------------------------------------
UrlLists == UNION {[1..n -> Urls] : n \in 0..MaxUrls}

\* the steps of the event loop that belong to HttpFetcher.fetch coroutines
TaskStep(max_attempts) ==
    \/ TimerFire
    \/ \E t \in Tasks : TaskLock(t)
    \/ \E t \in Tasks : attempts < max_attempts /\ TaskAcquire(t)
    \/ \E t \in Tasks : TaskBackoff(t)
    \/ \E t \in Tasks, o \in Outcomes : TaskResponse(t, o)

\* The fetcher with its cache: callers make one call after the other, with
\* every kind of call, URL list and flag, on every cache file.
Previous(c) == IF c = 1 THEN TRUE ELSE call[c - 1].pc = "done"

Next ==
    \/ \E tbl \in StoredTables : SetDbPath(tbl)
    \/ TaskStep(MaxFacadeAttempts)
    \/ \E c \in 1..NFacadeCalls, url \in Urls, nc \in BOOLEAN, sc \in BOOLEAN :
           Previous(c) /\ CallFetch(c, url, nc, sc)
    \/ \E c \in 1..NFacadeCalls, urls \in UrlLists, nc \in BOOLEAN, sc \in BOOLEAN :
           Previous(c) /\ CallFetchAll(c, urls, nc, sc)
    \/ \E c \in Calls : FetchAllReturn(c)

Spec == Init /\ [][Next]_vars

\* The transport under concurrent callers: caching is disabled (no cache file
\* is configured), every call is a fetch that goes to HttpFetcher.fetch, calls
\* overlap freely and set_rate may be called in mid-run. The transport never
\* looks into the URL it is given: the callers all ask for U1.
TransportNext ==
    \/ \E max \in Rates : SetRate(max)
    \/ SetRateAcquire
    \/ TaskStep(MaxAttempts)
    \/ \E c \in Calls, nc \in BOOLEAN : CallFetch(c, U1, nc, FALSE)

TransportSpec == Init /\ [][TransportNext]_vars

\* The transport in time: the clock runs, a response arrives any time after
\* its request, a release callback runs any time from when it is due.
WindowNext ==
    \/ Tick
    \/ TimerDue /\ TimerFire
    \/ \E t \in Tasks : TaskLock(t)
    \/ \E t \in Tasks : attempts < MaxAttempts /\ TaskAcquire(t)
    \/ \E t \in Tasks : TaskBackoff(t)
    \/ \E t \in Tasks, o \in Outcomes : TaskResponse(t, o)
    \/ \E c \in Calls, nc \in BOOLEAN : CallFetch(c, U1, nc, FALSE)

WindowSpec == Init /\ [][WindowNext]_vars

\* A batch: execute is called once, headless or from the GUI; the domain
\* tasks run as the event loop takes them, and the user may press Cancel.
ExecuteNext ==
    \/ \E mode \in {"headless", "ui"} : CallExecute(mode)
    \/ \E d \in Domains : DomRun(d)
    \/ \E d \in Domains, ok \in BOOLEAN : DomEnd(d, ok)
    \/ \E cont \in BOOLEAN : ExecAwait(cont)

ExecuteSpec == Init /\ [][ExecuteNext]_vars

\* The ceiling reconfigured twice: pooled fetches run, set_rate is called, and
\* while it waits for slots set_rate is called again.
ReconfigureNext ==
    \/ \E max \in Rates : SetRate(max)
    \/ SetRateAcquire
    \/ \E max \in Rates : OverlapSetRate(max)
    \/ OverlapSetRateAcquire
    \/ TimerFire
    \/ \E t \in Tasks : attempts < MaxAttempts /\ TaskAcquire(t)
    \/ \E t \in Tasks : TaskBackoff(t)
    \/ \E t \in Tasks, o \in Outcomes : TaskResponse(t, o)
    \/ \E c \in Calls : CallFetch(c, U1, FALSE, FALSE)

ReconfigureSpec == Init /\ [][ReconfigureNext]_vars

\* A long run: the cache file holds rows of every age, pooled calls are made
\* one after the other with the cache in use, days pass, and close is called
\* once no call is in progress.
RetentionNext ==
    \/ \E tbl \in RetentionTables : SetDbPath(tbl)
    \/ \E d \in PassDays : Pass(d)
    \/ TimerFire
    \/ \E t \in Tasks : attempts < MaxFacadeAttempts /\ TaskAcquire(t)
    \/ \E t \in Tasks : TaskBackoff(t)
    \/ \E t \in Tasks, o \in RetentionOutcomes : TaskResponse(t, o)
    \/ \E c \in 1..NFacadeCalls, url \in RetentionUrls :
           Previous(c) /\ CallFetch(c, url, FALSE, FALSE)
    \/ \E c \in 1..NFacadeCalls, urls \in RetentionLists :
           Previous(c) /\ CallFetchAll(c, urls, FALSE, FALSE)
    \/ \E c \in Calls : FetchAllReturn(c)
    \/ session # None /\ (\A c \in Calls : call[c].pc \in {"idle", "done"}) /\ Close

RetentionSpec == Init /\ [][RetentionNext]_vars

\* no fetch or fetch_all call is in progress
Between == \A c \in Calls : call[c].pc \in {"idle", "done"}

\* Requests that carry a credential: the cache is written directly, in ones
\* and in batches, before and after a pooled fetch or fetch_all call.
CredentialNext ==
    \/ \E tbl \in StoredTables : SetDbPath(tbl)
    \/ \E url \in CredentialUrls, response \in {"fresh", None} :
           Between /\ op.n < MaxCacheOps /\ CallCreateOrUpdate(url, response)
    \/ \E data \in CredentialDicts :
           Between /\ op.n < MaxCacheOps /\ CallCreateOrUpdateAll(data)
    \/ TimerFire
    \/ \E t \in Tasks : attempts < MaxFacadeAttempts /\ TaskAcquire(t)
    \/ \E t \in Tasks, o \in CredentialOutcomes : TaskResponse(t, o)
    \/ \E c \in 1..NFacadeCalls, url \in CredentialUrls :
           Previous(c) /\ CallFetch(c, url, FALSE, FALSE)
    \/ \E c \in 1..NFacadeCalls, urls \in CredentialLists :
           Previous(c) /\ CallFetchAll(c, urls, FALSE, FALSE)
    \/ \E c \in Calls : FetchAllReturn(c)

CredentialSpec == Init /\ [][CredentialNext]_vars

\* The script from start to end: main() configures the cache, a batch runs
\* (headless, or started from the GUI) while main() is running, main() ends,
\* the finally clause runs and the interpreter exits.
MainNext ==
    \/ \E nocache \in BOOLEAN : MainConfigure(nocache)
    \/ \E mode \in {"headless", "ui"} : app.pc = "main" /\ CallExecute(mode)
    \/ \E d \in Domains : app.pc = "main" /\ DomRun(d)
    \/ \E d \in Domains, ok \in BOOLEAN : app.pc = "main" /\ DomEnd(d, ok)
    \/ \E cont \in BOOLEAN : app.pc = "main" /\ ExecAwait(cont)
    \/ \E how \in {"returned", "raised"} : MainEnd(how)
    \/ \E debug \in BOOLEAN : Finally(debug)
    \/ \E finalized \in BOOLEAN : Exit(finalized)

MainSpec == Init /\ [][MainNext]_vars

\* One fetch, answered with every status and content type.
ClassifyNext ==
    \/ TimerFire
    \/ \E t \in Tasks : attempts < MaxAttempts /\ TaskAcquire(t)
    \/ \E t \in Tasks : TaskBackoff(t)
    \/ \E t \in Tasks, o \in AllResponses : TaskResponse(t, o)
    \/ CallFetch(1, U1, FALSE, FALSE)

ClassifySpec == Init /\ [][ClassifyNext]_vars

\* The cache on its own: callers write, evict and shut down, a bounded number
\* of calls in a run.
CacheNext ==
    \/ \E url \in CacheUrls, response \in PutValues :
           op.n < MaxCacheOps /\ CallCreateOrUpdate(url, response)
    \/ \E max_age \in FlushAges : op.n < MaxCacheOps /\ CallFlush(max_age)
    \/ op.n < MaxCacheOps /\ Close

CacheSpec == CacheInit /\ [][CacheNext]_vars

\* The cache and its storage: callers configure, write in ones and in
\* batches, evict and close, a bounded number of calls in a run.
StorageNext ==
    \/ \E db_path \in DbPaths \cup {None} :
           op.n < MaxCacheOps /\ CallSetDbPath(db_path)
    \/ op.n < MaxCacheOps /\ CallClose
    \/ \E url \in {U1, U4}, response \in PutValues :
           op.n < MaxCacheOps /\ CallCreateOrUpdate(url, response)
    \/ \E data \in PutDicts : op.n < MaxCacheOps /\ CallCreateOrUpdateAll(data)
    \/ \E max_age \in FlushAges : op.n < MaxCacheOps /\ CallFlush(max_age)

StorageSpec == CacheInit /\ [][StorageNext]_vars

\* The transport shut down in mid-run: close is called once, at any moment,
\* and callers go on fetching.
ShutdownNext ==
    \/ session # None /\ Close
    \/ TaskStep(MaxAttempts)
    \/ \E t \in Tasks : TaskAcquireClosed(t)
    \/ \E c \in Calls, nc \in BOOLEAN : CallFetch(c, U1, nc, FALSE)

ShutdownSpec == Init /\ [][ShutdownNext]_vars

\* The fetcher asked twice for the same list: fetch_all(urls), and once it has
\* returned, the same call again, both with the cache in use.
RepeatNext ==
    \/ \E tbl \in StoredTables : SetDbPath(tbl)
    \/ TaskStep(MaxFacadeAttempts)
    \/ \E urls \in UrlLists, nc \in BOOLEAN : CallFetchAll(1, urls, nc, FALSE)
    \/ call[1].pc = "done"
           /\ CallFetchAll(2, call[1].urls, call[1].no_concurrency, FALSE)
    \/ \E c \in Calls : FetchAllReturn(c)

RepeatSpec == Init /\ [][RepeatNext]_vars

\* ---------------------------------------------------------------------------
\* Vocabulary of the properties
\* ---------------------------------------------------------------------------
InFlight(t) == task[t].pc = "inflight"

Done(t) == task[t].pc = "done"

\* HTTP attempts a fetch has made so far
Attempts(t) == Len(task[t].hist) + (IF InFlight(t) THEN 1 ELSE 0)

ConnFailures(t) ==
    Cardinality({i \in 1..Len(task[t].hist) : task[t].hist[i] = ConnError})

RECURSIVE Sum(_, _)
Sum(f(_), S) ==
    IF S = {} THEN 0
    ELSE LET x == CHOOSE y \in S : TRUE IN f(x) + Sum(f, S \ {x})

\* throttle slots acquired by an attempt and not returned to the semaphore:
\* requests in flight, slots waiting for their release timer, and slots of
\* attempts that failed before the timer was set
Admitted ==
    Cardinality({t \in Tasks : InFlight(t)}) + timers + Sum(ConnFailures, Tasks)

\* the statuses the specification calls RETRIABLE
IsRetriableStatus(o) ==
    o # ConnError /\ (o.status = 429 \/ (o.status >= 500 /\ o.status <= 599))

\* the responses the specification calls FATAL
IsFatalResponse(o) ==
    /\ o # ConnError
    /\ \/ o.status = 400 /\ o.json
       \/ o.status >= 400 /\ o.status \notin {404, 429}
                          /\ ~(o.status >= 500 /\ o.status <= 599)

\* ---------------------------------------------------------------------------
\* C1. Rate ceiling: the number of admitted requests (throttle slots acquired
\* by an attempt and not yet returned) never exceeds the configured ceiling.
\* ---------------------------------------------------------------------------
C1_RateCeiling == Admitted <= max_nb_requests

\* the ceiling is reached while one more fetch is kept waiting for a slot
C1_Witness ==
    /\ Admitted = max_nb_requests
    /\ sem_throttle = 0
    /\ \E t \in Tasks : task[t].pc = "acquire"
    /\ \E t \in Tasks : InFlight(t)

\* ---------------------------------------------------------------------------
\* C2. Exclusive mutual exclusion: two exclusive-mode fetches are never both
\* in flight; a pooled and an exclusive fetch can be.
\* ---------------------------------------------------------------------------
C2_ExclusiveMutex ==
    \A t1 \in Tasks, t2 \in Tasks :
        (t1 # t2 /\ InFlight(t1) /\ InFlight(t2)) => ~(Exclusive(t1) /\ Exclusive(t2))

\* a pooled and an exclusive fetch in flight at the same instant
C2_Witness ==
    \E t1 \in Tasks, t2 \in Tasks :
        InFlight(t1) /\ InFlight(t2) /\ Exclusive(t1) /\ ~Exclusive(t2)

\* ---------------------------------------------------------------------------
\* C3. As claimed: for every URL at most one request for it is in flight.
\* ---------------------------------------------------------------------------
C3_Original ==
    \A u \in Urls :
        Cardinality({t \in Tasks : InFlight(t) /\ TaskUrl(t) = u}) <= 1

\* C3 as amended: for every URL at most one exclusive-mode request for it is
\* in flight; pooled requests for one URL may be in flight together.
C3_ExclusiveOncePerUrl ==
    \A u \in Urls :
        Cardinality({t \in Tasks : InFlight(t) /\ Exclusive(t) /\ TaskUrl(t) = u}) <= 1

\* one fetch_all list names a URL twice in exclusive mode: one request is in
\* flight, the other waits for the lock
C3_Witness ==
    \E t1 \in Tasks, t2 \in Tasks :
        /\ InFlight(t1) /\ Exclusive(t1)
        /\ task[t2].pc = "lock"
        /\ TaskUrl(t1) = TaskUrl(t2)

\* ---------------------------------------------------------------------------
\* C4. Retry budget: a fetch makes at most 3 HTTP attempts; answered a
\* retriable status (429, 5xx) on every attempt it makes exactly 3 attempts
\* and returns None; answered 503, 503, then 200 with a JSON body it makes
\* exactly 3 attempts and returns the 200 payload.
\* ---------------------------------------------------------------------------
AllRetriableStatus(h) == \A i \in 1..Len(h) : IsRetriableStatus(h[i])

C4_RetryBudget ==
    \A t \in Tasks :
        LET h == task[t].hist
        IN  /\ Attempts(t) <= 3
            /\ Len(h) = 3 => Done(t)
            /\ (AllRetriableStatus(h) /\ Len(h) < 3) => ~Done(t)
            /\ (AllRetriableStatus(h) /\ Len(h) = 3) => task[t].result = None
            /\ (Len(h) = 3 /\ AllRetriableStatus(SubSeq(h, 1, 2))
                           /\ h[3] = Resp(200, TRUE))
                   => task[t].result = Body(h[3])

\* 503, 503, 200: the third attempt's payload is returned
C4_Witness ==
    \E t \in Tasks :
        /\ Done(t)
        /\ task[t].hist = <<Resp(503, FALSE), Resp(503, FALSE), Resp(200, TRUE)>>
        /\ task[t].result = "fresh"

\* ---------------------------------------------------------------------------
\* C5. As claimed: with a ceiling k >= 1 and no other traffic, a fetch whose
\* every attempt fails at connection level is never left waiting for a
\* throttle slot that nothing will release (it goes on to 3 attempts and
\* returns None).
\* ---------------------------------------------------------------------------
C5_ConnFailuresNeverBlock ==
    \A t \in Tasks :
        ( /\ task[t].pc = "acquire"
          /\ \A i \in 1..Len(task[t].hist) : task[t].hist[i] = ConnError
          /\ \A t2 \in Tasks \ {t} : task[t2].pc = "idle"
          /\ nrate = 0 /\ max_nb_requests >= 1 )
        => (sem_throttle > 0 \/ timers > 0)

\* ---------------------------------------------------------------------------
\* C6. A FATAL response (400 with a JSON error body; any other status >= 400
\* except 404, 429 and 5xx) is never retried: it is the fetch's last attempt,
\* the only one when it answers the first, and the fetch returns None.
\* ---------------------------------------------------------------------------
C6_FatalNotRetried ==
    \A t \in Tasks :
        \A i \in 1..Len(task[t].hist) :
            IsFatalResponse(task[t].hist[i]) =>
                /\ i = Len(task[t].hist)
                /\ Done(t)
                /\ task[t].result = None
                /\ task[t].exc = None

\* a 400 with a JSON error body on the first attempt: one request, None
C6_Witness ==
    \E t \in Tasks :
        /\ Done(t)
        /\ task[t].hist = <<Resp(400, TRUE)>>
        /\ task[t].result = None

\* ---------------------------------------------------------------------------
\* C7. As claimed: whatever the HTTP outcomes and the cache content, fetch and
\* fetch_all return (a payload or None); no exception reaches the caller.
\* ---------------------------------------------------------------------------
C7_NoExceptionReachesCaller == \A c \in Calls : call[c].exc = None

\* ---------------------------------------------------------------------------
\* C8. As claimed: fetch(url) without skip_cache on a cache holding a
\* well-formed entry for url's key, whatever the stored payload, returns the
\* stored payload at once: no transport coroutine is started, no throttle slot
\* is acquired and no HTTP request is issued.
\* ---------------------------------------------------------------------------
WellFormedEntry(url) ==
    /\ conn # None
    /\ Normalize(url) \in DOMAIN responses
    /\ Loads(responses[Normalize(url)].response) # ValueError

StoredPayload(url) == Loads(responses[Normalize(url)].response)

C8_HitShortCircuits ==
    [][\A c \in Calls :
          ( /\ call[c].pc = "idle"
            /\ call'[c].kind = "fetch"
            /\ ~call'[c].skip_cache
            /\ WellFormedEntry(call'[c].urls[1]) )
          => /\ call'[c].pc = "done"
             /\ call'[c].result = StoredPayload(call'[c].urls[1])
             /\ task' = task
             /\ sem_throttle' = sem_throttle
             /\ attempts' = attempts]_vars

\* ---------------------------------------------------------------------------
\* C9. Cache bypass: fetch(url, skip_cache=True) always goes to the transport,
\* returns what the transport returns and leaves the table and the
\* pending-write counter unchanged; without skip_cache, on an open cache, a
\* payload returned by the transport is stored under url's key before fetch
\* returns.
\* ---------------------------------------------------------------------------
C9_BypassLeavesCache ==
    [][\A c \in Calls :
          (call'[c] # call[c] /\ call'[c].kind = "fetch") =>
              LET me  == call'[c]
                  key == Normalize(me.urls[1])
              IN  IF me.skip_cache
                  THEN /\ responses' = responses
                       /\ actions_pending' = actions_pending
                       /\ call[c].pc = "idle" => me.pc = "waiting"
                       /\ me.pc = "done" => me.result = task'[<<c, 1>>].result
                  ELSE (call[c].pc = "waiting" /\ me.result # None /\ conn # None)
                           => /\ key \in DOMAIN responses'
                              /\ responses'[key] = Row(Dumps(me.result), now)]_vars

\* a bypassing fetch has returned a fresh payload and the entry stored for its
\* key is still the old one
C9_Witness ==
    \E c \in Calls :
        /\ call[c].kind = "fetch" /\ call[c].skip_cache /\ call[c].pc = "done"
        /\ call[c].result = "fresh"
        /\ conn # None
        /\ Normalize(call[c].urls[1]) \in DOMAIN responses
        /\ responses[Normalize(call[c].urls[1])] = Row(Dumps("old"), -1)
        /\ actions_pending = 0

\* ---------------------------------------------------------------------------
\* C10. As claimed: in both cache modes fetch_all returns a mapping whose key
\* set is exactly the set of input URLs.
\* ---------------------------------------------------------------------------
C10_ResultShape ==
    \A c \in Calls :
        (call[c].kind = "fetch_all" /\ call[c].pc = "done") =>
            /\ call[c].exc = None
            /\ call[c].results.type = "dict"
            /\ DictKeys(call[c].results.items)
                   = {call[c].urls[i] : i \in 1..Len(call[c].urls)}

\* ---------------------------------------------------------------------------
\* C11. As claimed: with caching enabled, once fetch_all(urls) has returned,
\* every URL whose fresh fetch brought back a payload has a cache entry holding
\* that payload, and a second fetch_all(urls) finds every such URL in the
\* cache (no HTTP request is issued for it) and returns the same payload.
\* ---------------------------------------------------------------------------
DictGet(d, k) == d[CHOOSE i \in 1..Len(d) : d[i][1] = k][2]

\* what the transport brought back for the i-th URL call c handed to it
Fresh(c, i) == task[<<c, i>>].result

Returned(c) ==
    /\ call[c].kind = "fetch_all" /\ call[c].pc = "done" /\ call[c].exc = None
    /\ ~call[c].skip_cache
    /\ conn # None

DistinctKeys(urls) ==
    \A i, j \in 1..Len(urls) : i # j => Normalize(urls[i]) # Normalize(urls[j])

Populated ==
    \A i \in 1..Len(call[1].misses) :
        Fresh(1, i) # None =>
            LET url == call[1].misses[i]
                key == Normalize(url)
            IN  /\ key \in DOMAIN responses
                /\ responses[key].response = Dumps(Fresh(1, i))
                /\ call[2].pc # "idle" =>
                       /\ \A j \in 1..Len(call[2].misses) : call[2].misses[j] # url
                       /\ url \in DictKeys(call[2].results.items)
                       /\ DictGet(call[2].results.items, url) = Fresh(1, i)

C12_ShutdownOrder ==
    /\ session = None => conn = None
    /\ op.name = "close" =>
           LET before == op.before.responses
           IN  /\ conn = None /\ session = None /\ actions_pending = 0
               /\ DOMAIN responses \subseteq DOMAIN before
               /\ op.before.conn # None =>
                      \A k \in DOMAIN before :
                          /\ before[k].last_accessed < now - 50 => k \notin DOMAIN responses
                          /\ before[k].last_accessed > now - 50 =>
                                 k \in DOMAIN responses /\ responses[k] = before[k]

\* close found an open cache with a pending write, one entry of 51 days and
\* one written today: the old entry is gone, today's is kept
C12_Witness ==
    /\ op.name = "close" /\ op.before.conn # None /\ op.before.actions_pending = 1
    /\ \E k1 \in DOMAIN op.before.responses, k2 \in DOMAIN op.before.responses :
           /\ op.before.responses[k1].last_accessed = now - 51
           /\ op.before.responses[k2].last_accessed = now
           /\ DOMAIN responses = {k2}
    /\ conn = None /\ session = None /\ actions_pending = 0

\* ---------------------------------------------------------------------------
\* C13. As claimed: once the transport is closed no fetch is left waiting for
\* a throttle slot that nothing will release (no slot is free, no release
\* timer is pending and no request is in flight), whatever the number of
\* fetch calls made after close; connection failures, which lose slots of
\* their own, are left out.
\* ---------------------------------------------------------------------------
C13_ClosedFetchFailsFast ==
    \A t \in Tasks :
        ( /\ session = None
          /\ task[t].pc = "acquire"
          /\ \A t2 \in Tasks : ConnFailures(t2) = 0 )
        => \/ sem_throttle > 0
           \/ timers > 0
           \/ \E t2 \in Tasks : InFlight(t2)

\* ---------------------------------------------------------------------------
\* C14. Lowering the ceiling: a set_rate below the current ceiling changes no
\* fetch and no call (nothing in flight is cancelled or failed); while it
\* waits, the ceiling is still the old one, no slot is free and the slots it
\* has reclaimed plus those it still waits for are the difference; once it has
\* returned, the free slots plus the slots held by admitted requests are the
\* new ceiling.
\* ---------------------------------------------------------------------------
\* free slots plus slots held by admitted requests
Capacity == sem_throttle + Admitted

C14_LoweringKeepsRequests ==
    /\ [](rate.pc = "idle" => Capacity = max_nb_requests)
    /\ [](rate.pc = "acquiring" =>
              /\ rate.remaining > 0
              /\ Capacity = rate.target + rate.remaining
              /\ max_nb_requests = rate.target - rate.delta)
    /\ [][(rate' # rate /\ rate'.delta < 0) =>
              /\ task' = task /\ call' = call
              /\ timers' = timers
              /\ rate'.pc = "acquiring" => sem_throttle' = 0
              /\ rate'.pc = "idle" =>
                     /\ max_nb_requests' = max_nb_requests + rate'.delta
                     /\ Capacity' = max_nb_requests']_vars

\* set_rate(1) was called under ceiling 2 with two requests in flight: it
\* waits for one slot, and both requests are still in flight
C14_Witness ==
    /\ rate.pc = "acquiring" /\ rate.delta = -1 /\ rate.target = 1
    /\ rate.remaining = 1
    /\ Cardinality({t \in Tasks : InFlight(t)}) = 2
    /\ sem_throttle = 0 /\ timers = 0

\* ---------------------------------------------------------------------------
\* C15. Raising the ceiling: a set_rate above the current ceiling returns at
\* once, without error, having added the difference to the free slots, so that
\* as many waiting fetches can be admitted with no held slot released; the
\* admitted requests stay within the new ceiling.
\* ---------------------------------------------------------------------------
C15_RaisingAdmitsAtOnce ==
    /\ [](Admitted <= max_nb_requests)
    /\ [][(nrate' # nrate /\ rate'.delta > 0) =>
              /\ rate'.pc = "idle"
              /\ max_nb_requests' = max_nb_requests + rate'.delta
              /\ sem_throttle' = sem_throttle + rate'.delta
              /\ task' = task /\ call' = call /\ timers' = timers]_vars

\* the ceiling was raised from 1 to 2 and two requests are in flight though no
\* slot has been released
C15_Witness ==
    /\ rate.pc = "idle" /\ rate.delta = 1 /\ max_nb_requests = 2
    /\ Cardinality({t \in Tasks : InFlight(t) /\ task[t].hist = <<>>}) = 2
    /\ timers = 0
    /\ sem_throttle = 0

\* ---------------------------------------------------------------------------
\* C16. As claimed: a URL with the same scheme, host, path (and fragment) as
\* a URL just stored, and the same multiset of (name, value) parameters apart
\* from api_key, in any order, has the same RequestKey: the key of the row
\* just written.
\* ---------------------------------------------------------------------------
Occurrences(query, p) == Cardinality({i \in 1..Len(query) : query[i] = p})

SameParams(q1, q2) ==
    \A p \in {q1[i] : i \in 1..Len(q1)} \cup {q2[i] : i \in 1..Len(q2)} :
        p[1] # "api_key" => Occurrences(q1, p) = Occurrences(q2, p)

SameRequest(u1, u2) ==
    /\ u1.base = u2.base /\ u1.fragment = u2.fragment
    /\ SameParams(u1.query, u2.query)

C16_SameRequestSameKey ==
    (op.name = "create_or_update" /\ op.before.conn # None /\ op.value # None) =>
        \A u \in CacheUrls :
            SameRequest(op.url, u) =>
                /\ Normalize(u) = Normalize(op.url)
                /\ Normalize(u) \in DOMAIN responses
                /\ responses[Normalize(u)] = Row(Dumps(op.value), now)

\* ---------------------------------------------------------------------------
\* C17. Read after write: on a configured cache, right after
\* create_or_update(u, v) with v not None, retrieve(u') returns v and
\* retrieve_all([u']) returns the hit u' -> v and no miss, for every u' with
\* the RequestKey of u, whether the write was committed (the counter came
\* back to 0) or is still pending.
\* ---------------------------------------------------------------------------
C17_ReadAfterWrite ==
    (op.name = "create_or_update" /\ op.before.conn # None /\ op.value # None) =>
        \A u \in CacheUrls :
            Normalize(u) = Normalize(op.url) =>
                /\ Retrieve(u) = op.value
                /\ RetrieveAll(<<u>>) = [hits |-> <<<<u, op.value>>>>, missed |-> <<>>]

\* a payload stored through U1 over an older entry, the write still pending,
\* is read back through U2
C17_Witness ==
    /\ op.name = "create_or_update" /\ op.url = U1 /\ op.value = "fresh"
    /\ op.before.conn # None
    /\ Normalize(U1) \in DOMAIN op.before.responses
    /\ op.before.actions_pending = 0 /\ actions_pending = 1
    /\ Retrieve(U2) = "fresh"
    /\ RetrieveAll(<<U2>>).hits = <<<<U2, "fresh">>>>

\* ---------------------------------------------------------------------------
\* C18. Eviction: on a configured cache flush(max_age) with max_age >= 0
\* deletes exactly the entries whose last_accessed is at or before now minus
\* max_age days and leaves the younger ones as they were; after flush(0)
\* retrieve misses for every URL whose entry had a timestamp in the past.
\* ---------------------------------------------------------------------------
C18_EvictionExact ==
    (op.name = "flush" /\ op.max_age >= 0 /\ op.before.conn # None) =>
        LET before == op.before.responses
            younger == {k \in DOMAIN before : before[k].last_accessed > now - op.max_age}
        IN  /\ responses = [k \in younger |-> before[k]]
            /\ op.exc = None
            /\ op.max_age = 0 =>
                   \A u \in CacheUrls :
                       ( /\ Normalize(u) \in DOMAIN before
                         /\ before[Normalize(u)].last_accessed < now ) => Retrieve(u) = None

\* flush(50) found an entry last accessed 50 days ago and one written today:
\* the first is deleted, the second kept
C18_Witness ==
    /\ op.name = "flush" /\ op.max_age = 50 /\ op.before.conn # None
    /\ \E k1 \in DOMAIN op.before.responses, k2 \in DOMAIN op.before.responses :
           /\ op.before.responses[k1].last_accessed = now - 50
           /\ op.before.responses[k2].last_accessed = now
           /\ DOMAIN responses = {k2}
           /\ responses[k2] = op.before.responses[k2]

\* ---------------------------------------------------------------------------
\* C19. flush(max_age) with max_age < 0 raises ValueError, on a configured
\* and on an unconfigured cache, and leaves the entries, the pending-write
\* counter and the storage handle as they were.
\* ---------------------------------------------------------------------------
C19_NegativeAgeRejected ==
    (op.name = "flush" /\ op.max_age < 0) =>
        /\ op.exc = ValueError
        /\ CacheState = op.before

\* flush(-1) on an open cache holding an entry and a pending write
C19_Witness ==
    /\ op.name = "flush" /\ op.max_age = -1 /\ op.exc = ValueError
    /\ conn # None /\ actions_pending = 1
    /\ DOMAIN responses # {}

\* ---------------------------------------------------------------------------
\* C20. As claimed: whatever the cache holds (malformed payloads included),
\* the hits of retrieve_all(urls) are exactly the URLs for which retrieve
\* returns a payload, each with that payload, and its misses are exactly the
\* other URLs. Stated of the retrieve_all that fetch_all has just made.
\* ---------------------------------------------------------------------------
C20_BatchEquivalence ==
    \A c \in Calls :
        (call[c].kind = "fetch_all" /\ call[c].pc = "gather" /\ ~call[c].skip_cache) =>
            LET urls   == {call[c].urls[i] : i \in 1..Len(call[c].urls)}
                hits   == call[c].results.items
                missed == {call[c].misses[i] : i \in 1..Len(call[c].misses)}
            IN  /\ DictKeys(hits) = {u \in urls : Retrieve(u) # None}
                /\ \A u \in DictKeys(hits) : DictGet(hits, u) = Retrieve(u)
                /\ missed = {u \in urls : Retrieve(u) = None}

\* ---------------------------------------------------------------------------
\* C21. As claimed: while the location handed to the latest set_db_path is
\* None, whatever storage was configured before, retrieve misses for every
\* URL, retrieve_all returns no hit and every URL as a miss, and
\* create_or_update, create_or_update_all and flush leave the cache and its
\* files as they found them.
\* ---------------------------------------------------------------------------
C21_NoLocationDisablesCaching ==
    op.db_path = None =>
        /\ \A u \in CacheUrls :
               /\ Retrieve(u) = None
               /\ RetrieveAll(<<u>>) = [hits |-> <<>>, missed |-> <<u>>]
        /\ op.name \in {"create_or_update", "create_or_update_all", "flush"} =>
               CacheState = op.before

\* ---------------------------------------------------------------------------
\* C22. RequestsCache.close raises nothing and leaves no storage open and no
\* write pending; on an open storage every write the cache had accepted is
\* committed to the file and its connection is released, the other files are
\* untouched; on a cache with no storage open (closed before, or never
\* configured) it changes nothing.
\* ---------------------------------------------------------------------------
C22_CloseCommitsIdempotent ==
    op.name = "RequestsCache.close" =>
        /\ op.exc = None
        /\ conn = None /\ actions_pending = 0
        /\ op.before.conn = None => CacheState = op.before
        /\ op.before.conn # None =>
               \A p \in DbPaths :
                   IF p = op.before.conn
                   THEN /\ files[p].responses = op.before.responses
                        /\ files[p].connections = op.before.files[p].connections - 1
                   ELSE files[p] = op.before.files[p]

\* close found one write pending that the file did not hold yet: the file
\* holds it now
C22_Witness ==
    /\ op.name = "RequestsCache.close" /\ op.n = 2
    /\ op.before.conn = DB1 /\ op.before.actions_pending = 1
    /\ op.before.files[DB1].responses # op.before.responses
    /\ files[DB1] = File(op.before.responses, 0)
    /\ conn = None /\ actions_pending = 0

\* ---------------------------------------------------------------------------
\* C23. Absence is never cached: no row of the cache or of its files holds
\* the encoding of None; create_or_update(url, None) leaves the cache as it
\* found it; create_or_update_all changes or creates no row for a key to
\* which the batch gives None only.
\* ---------------------------------------------------------------------------
\* the keys to which the batch data gives a payload
WrittenKeys(data) ==
    {Normalize(data[i][1]) : i \in {j \in 1..Len(data) : data[j][2] # None}}

C23_AbsenceNeverCached ==
    /\ \A k \in DOMAIN responses : responses[k].response # Dumps(None)
    /\ \A p \in DbPaths :
           \A k \in DOMAIN files[p].responses :
               files[p].responses[k].response # Dumps(None)
    /\ (op.name = "create_or_update" /\ op.value = None) => CacheState = op.before
    /\ op.name = "create_or_update_all" =>
           /\ DOMAIN responses \ DOMAIN op.before.responses \subseteq WrittenKeys(op.value)
           /\ \A k \in DOMAIN op.before.responses \ WrittenKeys(op.value) :
                  k \in DOMAIN responses /\ responses[k] = op.before.responses[k]

\* a batch gave None for the URL of a stored entry and a payload for another
\* URL: the entry is as it was, the other one is stored
C23_Witness ==
    /\ op.name = "create_or_update_all"
    /\ op.value = <<<<U1, None>>, <<U4, "fresh">>>>
    /\ op.before.conn # None
    /\ Normalize(U1) \in DOMAIN op.before.responses
    /\ responses[Normalize(U1)] = op.before.responses[Normalize(U1)]
    /\ responses[Normalize(U4)] = Row(Dumps("fresh"), now)

\* ---------------------------------------------------------------------------
\* C24. As claimed: a response with status 404, JSON or not, ends the fetch
\* (no attempt follows it) with a result that is not None, and when the cache
\* is in use and not bypassed the result is stored under the URL, so that
\* retrieve returns it and a later fetch needs no transport.
\* ---------------------------------------------------------------------------
C24_NotFoundIsCached ==
    \A c \in Calls :
        LET h == task[<<c, 1>>].hist
        IN  /\ \A i \in 1..Len(h) :
                   (h[i] # ConnError /\ h[i].status = 404) =>
                       i = Len(h) /\ task[<<c, 1>>].pc = "done"
            /\ ( /\ call[c].kind = "fetch" /\ call[c].pc = "done"
                 /\ h # <<>> /\ h[Len(h)].status = 404 ) =>
                   /\ call[c].exc = None
                   /\ call[c].result # None
                   /\ (conn # None /\ ~call[c].skip_cache) =>
                          /\ Retrieve(call[c].urls[1]) = call[c].result
                          /\ ~NeedsTransport(Retrieve(call[c].urls[1]))

\* ---------------------------------------------------------------------------
\* C25. Rolling window: the free slots grow only by a release callback
\* returning one slot, and the slot it returns was acquired at least
\* TIME_PERIOD before, whatever the outcome of the attempt that held it and
\* however soon its response came; every release still pending is due no
\* sooner than TIME_PERIOD after the acquisition of its slot.
\* ---------------------------------------------------------------------------
C25_RollingWindowRelease ==
    /\ [](clock.freed # <<>> =>
              clock.freed[1].released >= clock.freed[1].acquired + TIME_PERIOD)
    /\ [](\A i \in 1..Len(clock.due) :
              clock.due[i].at >= clock.due[i].acquired + TIME_PERIOD)
    /\ [][sem_throttle' > sem_throttle =>
              /\ sem_throttle' = sem_throttle + 1
              /\ timers' = timers - 1
              /\ clock.due # <<>>
              /\ clock.time >= Head(clock.due).acquired + TIME_PERIOD]_vars

\* a request answered 403 within the second its slot was acquired in: the
\* fetch is over, the slot came back one second after the acquisition
C25_Witness ==
    /\ clock.freed = <<[acquired |-> 0, at |-> TIME_PERIOD, released |-> TIME_PERIOD]>>
    /\ task[<<1, 1>>].pc = "done" /\ task[<<1, 1>>].hist = <<Resp(403, FALSE)>>
    /\ task[<<2, 1>>].pc = "idle"
    /\ sem_throttle = max_nb_requests

\* ---------------------------------------------------------------------------
\* C26. Cooperative cancellation: UserAbortException is raised only by the
\* increment that follows an awaited domain task; the step that raises it
\* changes no domain task (nothing in flight is cancelled); from then on no further domain task is created, so the domains
\* of the later chunks have none, and the tasks already created are never
\* cancelled; the caller reports the abort as 'Request Cancelled!', and
\* reports nothing else that way.
\* ---------------------------------------------------------------------------
C26_CooperativeCancellation ==
    /\ [](job.exc = "UserAbortException" =>
              /\ job.pc = "raised" /\ job.mode = "ui"
              /\ job.created = ChunkEnd((job.counted \div ChunkSize) * ChunkSize)
              /\ \A d \in Domains : d > job.created => job.dom[d] = "none")
    /\ [](job.status = "Request Cancelled!" <=> job.exc = "UserAbortException")
    /\ [](\A d \in Domains : job.dom[d] # "cancelled")
    /\ [][(job.exc = None /\ job'.exc = "UserAbortException") =>
              /\ job.pc = "await" /\ job.dom[job.counted + 1] = "done"
              /\ job'.dom = job.dom /\ job'.counted = job.counted]_vars
    /\ [][job.exc = "UserAbortException" =>
              /\ job'.created = job.created
              /\ job'.pc = job.pc /\ job'.exc = job.exc /\ job'.status = job.status
              /\ \A d \in Domains :
                     \/ job'.dom[d] = job.dom[d]
                     \/ job.dom[d] = "scheduled" /\ job'.dom[d] = "fetching"
                     \/ job.dom[d] = "fetching" /\ job'.dom[d] \in {"done", "failed"}]_vars

\* the user cancelled at the first increment: the second task of the chunk is
\* still fetching, the domain of the next chunk has no task
C26_Witness ==
    /\ job.exc = "UserAbortException" /\ job.status = "Request Cancelled!"
    /\ job.counted = 0 /\ job.created = ChunkSize
    /\ job.dom[1] = "done" /\ job.dom[2] = "fetching"
    /\ job.dom[NDomains] = "none"

\* ---------------------------------------------------------------------------
\* C27. Corrupt entries are misses: retrieve returns None (no exception) for
\* a URL whose stored text json.loads cannot decode; a fetch of such a URL
\* leaves the entry and the pending-write counter as they were and goes to
\* the transport exactly as for a URL with no entry.
\* ---------------------------------------------------------------------------
Corrupt(u) ==
    /\ conn # None
    /\ Normalize(u) \in DOMAIN responses
    /\ Loads(responses[Normalize(u)].response) = ValueError

C27_CorruptEntryIsMiss ==
    /\ [](\A u \in Urls : Corrupt(u) => Retrieve(u) = None)
    /\ [][\A c \in Calls, u \in Urls :
              ( /\ call[c].pc = "idle" /\ call'[c].pc # "idle"
                /\ call'[c].kind = "fetch" /\ ~call'[c].skip_cache
                /\ call'[c].urls = <<u>> /\ Corrupt(u) ) =>
                  /\ responses' = responses /\ actions_pending' = actions_pending
                  /\ call'[c].pc = "waiting" /\ call'[c].exc = None
                  /\ call'[c].misses = <<u>>
                  /\ task'[<<c, 1>>] = Spawned(call'[c].no_concurrency)]_vars

\* a fetch of U1, whose entry is corrupt, has its request in flight and the
\* entry is as it was
C27_Witness ==
    /\ call[1].kind = "fetch" /\ call[1].urls = <<U1>> /\ ~call[1].skip_cache
    /\ call[1].pc = "waiting"
    /\ Corrupt(U1)
    /\ responses[Normalize(U1)] = Row(CorruptText, -1)
    /\ InFlight(<<1, 1>>)

\* ---------------------------------------------------------------------------
\* C28. Classification: every (status, JSON or not) pair falls in exactly one
\* of the four classes of the claim, the branch _fetch_retry takes is that
\* class, and the fetch behaves accordingly: a retriable response is followed
\* by another attempt unless it was the last try allowed, a fatal response
\* and a non-JSON body end the fetch with None, a valid response ends it with
\* its payload. A status is read as "otherwise successful" when it is below
\* 400 or is 404.
\* ---------------------------------------------------------------------------
SpecRetriable(r) == r.status = 429 \/ r.status \in 500..599

SpecFatal(r) ==
    \/ r.status = 400 /\ r.json
    \/ r.status >= 400 /\ r.status # 404 /\ r.status # 429 /\ r.status \notin 500..599

SpecValid(r) == (r.status < 400 \/ r.status = 404) /\ r.json

SpecAbsent(r) == (r.status < 400 \/ r.status = 404) /\ ~r.json

SpecClasses(r) ==
    (IF SpecRetriable(r) THEN {"RETRIABLE"} ELSE {}) \cup
    (IF SpecFatal(r) THEN {"FATAL"} ELSE {}) \cup
    (IF SpecValid(r) THEN {"VALID"} ELSE {}) \cup
    (IF SpecAbsent(r) THEN {"NONJSON"} ELSE {})

C28_ClassificationTotalExclusive ==
    \A t \in Tasks :
        LET h == task[t].hist
        IN  \A i \in 1..Len(h) :
                /\ SpecClasses(h[i]) = {Classify(h[i])}
                /\ ~(SpecRetriable(h[i]) /\ SpecFatal(h[i]))
                /\ SpecRetriable(h[i]) =>
                       IF i < MAX_HTTP_RETRIES
                       THEN i < Len(h) \/ task[t].pc # "done"
                       ELSE Done(t) /\ task[t].result = None
                /\ SpecFatal(h[i]) => i = Len(h) /\ Done(t) /\ task[t].result = None
                /\ SpecAbsent(h[i]) => i = Len(h) /\ Done(t) /\ task[t].result = None
                /\ SpecValid(h[i]) =>
                       i = Len(h) /\ Done(t) /\ task[t].result = Body(h[i])

\* a 429 with a JSON body was retried, a 400 without JSON then ended the fetch
C28_Witness ==
    /\ task[<<1, 1>>].hist = <<Resp(429, TRUE), Resp(400, FALSE)>>
    /\ Done(<<1, 1>>) /\ task[<<1, 1>>].result = None
    /\ call[1].pc = "done" /\ call[1].exc = None

\* ---------------------------------------------------------------------------
\* C29. Write buffering: the pending-write counter is always in 0..99 and is
\* 0 whenever no storage is open; create_or_update, create_or_update_all and
\* flush on an open storage commit exactly when the counter plus the writes
\* they accept reaches 100 (the file then holds what the cache holds and the
\* counter is 0), and otherwise add their writes to the counter and leave
\* the files as they were. Holds along set_db_path and close as well.
\* ---------------------------------------------------------------------------
\* the writes a call asks _update_count to count
Writes(o) ==
    IF o.name = "create_or_update" THEN (IF o.value # None THEN 1 ELSE 0)
    ELSE IF o.name = "create_or_update_all"
         THEN Cardinality({i \in 1..Len(o.value) : o.value[i][2] # None})
         ELSE IF o.max_age >= 0 THEN 1 ELSE 0

C29_WriteBuffering ==
    /\ actions_pending \in 0..(COMMIT_THRESHOLD - 1)
    /\ conn = None => actions_pending = 0
    /\ ( /\ op.name \in {"create_or_update", "create_or_update_all", "flush"}
         /\ op.before.conn # None ) =>
           LET total == op.before.actions_pending + Writes(op)
           IN  IF total >= COMMIT_THRESHOLD
               THEN actions_pending = 0 /\ files[conn].responses = responses
               ELSE actions_pending = total /\ files = op.before.files

\* a batch of two writes found 99 pending: the 101 are committed, the file
\* holds the two rows it did not hold, the counter is back to 0
C29_Witness ==
    /\ op.name = "create_or_update_all" /\ Writes(op) = 2
    /\ op.before.conn = DB1 /\ op.before.actions_pending = COMMIT_THRESHOLD - 1
    /\ actions_pending = 0
    /\ files[DB1].responses = responses
    /\ op.before.files[DB1].responses # responses

\* ---------------------------------------------------------------------------
\* C30. Reconfiguring: set_db_path(new) on a cache with storage open commits
\* what was pending to the old file and releases its connection, then opens
\* the new file: one connection is open in all, on the new file, the counter
\* is 0, and retrieve sees the rows of the new file and no other.
\* ---------------------------------------------------------------------------
\* what retrieve finds for u in the table tbl
Found(tbl, u) ==
    IF Normalize(u) \in DOMAIN tbl /\ Loads(tbl[Normalize(u)].response) # ValueError
    THEN Loads(tbl[Normalize(u)].response) ELSE None

InSequence(t) == Exclusive(t) /\ task[t].pc \in {"acquire", "inflight", "backoff"}

C31_LockSpansRetries ==
    /\ [](\A t \in Tasks :
              InSequence(t) =>
                  /\ sem_concurrency = 0
                  /\ \A t2 \in Tasks \ {t} : ~InSequence(t2))
    /\ [][\A t \in Tasks :
              /\ (task[t].pc = "lock" /\ task'[t].pc # "lock") =>
                     /\ task'[t].pc = "acquire" /\ task'[t].hist = <<>>
                     /\ sem_concurrency = 1 /\ sem_concurrency' = 0
                     /\ sem_throttle' = sem_throttle /\ attempts' = attempts
              /\ (Exclusive(t) /\ task'[t].pc = "backoff") =>
                     sem_concurrency' = sem_concurrency
              /\ (Exclusive(t) /\ task[t].pc # "done" /\ task'[t].pc = "done") =>
                     sem_concurrency' = sem_concurrency + 1
              /\ (attempts' # attempts /\ task'[t].pc = "inflight"
                     /\ task[t].pc # "inflight" /\ Exclusive(t)) =>
                     \A t2 \in Tasks \ {t} :
                         Exclusive(t2) =>
                             task[t2].pc \in {"idle", "lock", "done"}
              /\ sem_concurrency' > sem_concurrency =>
                     \E t2 \in Tasks :
                         Exclusive(t2) /\ task[t2].pc \in {"acquire", "inflight"}
                                       /\ task'[t2].pc = "done"]_vars

\* an exclusive fetch sleeps between its first and second attempt while another
\* exclusive fetch waits for the lock, with a throttle slot free for it
C31_Witness ==
    \E t1 \in Tasks, t2 \in Tasks :
        /\ Exclusive(t1) /\ task[t1].pc = "backoff" /\ Len(task[t1].hist) = 1
        /\ Exclusive(t2) /\ task[t2].pc = "lock"
        /\ sem_throttle > 0 /\ sem_concurrency = 0

\* ---------------------------------------------------------------------------
\* C32. As claimed: normalization drops the fragment. The key of the row that
\* create_or_update has just written has no fragment, and every URL that
\* differs from the stored one in its fragment alone has that key and reads
\* the row back.
\* ---------------------------------------------------------------------------
FragmentOnly(u1, u2) == u1.base = u2.base /\ u1.query = u2.query

C32_FragmentDropped ==
    (op.name = "create_or_update" /\ op.before.conn # None /\ op.value # None) =>
        /\ Normalize(op.url).fragment = ""
        /\ \A u \in CacheUrls :
               FragmentOnly(op.url, u) =>
                   /\ Normalize(u) = Normalize(op.url)
                   /\ Retrieve(u) = op.value

\* ---------------------------------------------------------------------------
\* C33. As claimed: throttle slots are conserved. Whenever no fetch is in
\* progress, every release timer has fired and no set_rate is waiting, the
\* free slots are the configured ceiling, whichever way the attempts ended.
\* ---------------------------------------------------------------------------
Quiescent ==
    /\ \A t \in Tasks : task[t].pc \in {"idle", "done"}
    /\ timers = 0
    /\ rate.pc = "idle"

C33_SlotConservation == Quiescent => sem_throttle = max_nb_requests

\* ---------------------------------------------------------------------------
\* C34. The exclusive lock is always released: the lock is held exactly while
\* one exclusive fetch is between taking it and its end; the step that ends
\* an exclusive fetch, by payload, by absence or by an exception, leaves the
\* lock free; a pooled fetch never waits for the lock and never changes it.
\* ---------------------------------------------------------------------------
C34_LockAlwaysReleased ==
    /\ [](/\ sem_concurrency \in {0, 1}
          /\ sem_concurrency = 0 <=> \E t \in Tasks : InSequence(t)
          /\ \A t \in Tasks : task[t].pc = "lock" => Exclusive(t))
    /\ [][\A t \in Tasks :
              /\ (Exclusive(t) /\ task[t].pc # "done" /\ task'[t].pc = "done") =>
                     sem_concurrency' = 1
              /\ (~Exclusive(t) /\ task[t].pc # "idle" /\ task'[t] # task[t]) =>
                     sem_concurrency' = sem_concurrency]_vars

\* one exclusive fetch has ended with absence and another with the
\* AttributeError of a closed transport: the lock is free
C34_Witness ==
    \E t1 \in Tasks, t2 \in Tasks :
        /\ Exclusive(t1) /\ Done(t1) /\ task[t1].exc = None
        /\ task[t1].result = None /\ task[t1].hist # <<>>
        /\ Exclusive(t2) /\ Done(t2) /\ task[t2].exc = "AttributeError"
        /\ sem_concurrency = 1

\* ---------------------------------------------------------------------------
\* C35. As claimed: when two set_rate calls overlap, the first suspended while
\* it reclaims slots and the second running meanwhile, then once both have
\* returned the free slots plus the slots held by admitted requests are the
\* recorded ceiling.
\* ---------------------------------------------------------------------------
BothReturned == rate.pc = "idle" /\ rate2.pc = "idle" /\ rate2.target # 0

C35_OverlappingSetRate == BothReturned => Capacity = max_nb_requests

\* ---------------------------------------------------------------------------
\* C36. As claimed: fetch(u) and fetch_all([u]) agree. On the cache as the
\* call found it (no entry, a payload, an empty payload, a corrupt entry) and
\* with the transport answering alike, a call for the one URL u, of either
\* kind, goes to the transport exactly when fetch does (retrieve gives
\* nothing, or something falsy), returns the one value and leaves the one
\* payload stored for u.
\* ---------------------------------------------------------------------------
\* call c was made for one URL with the cache in use, and has returned
SingleUrlCall(c) ==
    /\ call[c].pc = "done" /\ call[c].exc = None
    /\ ~call[c].skip_cache /\ conn # None
    /\ Len(call[c].urls) = 1

\* what call c returned for its URL
ValueOf(c) ==
    IF call[c].kind = "fetch" THEN call[c].result
    ELSE DictGet(call[c].results.items, call[c].urls[1])

\* the agreement, for the calls of the kinds in `kinds`
Agree(kinds) ==
    \A c \in 1..NFacadeCalls :
        (SingleUrlCall(c) /\ call[c].kind \in kinds) =>
            LET u     == call[c].urls[1]
                key   == Normalize(u)
                tbl   == files[DB1].responses
                hit   == Found(tbl, u)
                t     == <<c, 1>>
                value == IF NeedsTransport(hit) THEN task[t].result ELSE hit
            IN  /\ IF NeedsTransport(hit)
                   THEN Done(t) /\ attempts = Len(task[t].hist) /\ attempts >= 1
                   ELSE task[t] = IdleTask /\ attempts = 0
                /\ ValueOf(c) = value
                /\ IF value # None
                   THEN key \in DOMAIN responses /\ responses[key].response = Dumps(value)
                   ELSE /\ key \in DOMAIN responses <=> key \in DOMAIN tbl
                        /\ key \in DOMAIN tbl => responses[key] = tbl[key]

C36_SingleAndBatchAgree == Agree({"fetch", "fetch_all"})

\* ---------------------------------------------------------------------------
\* C37. A hit refreshes the entry's age: the step in which fetch or fetch_all
\* (caching in use) returns a payload served from the cache rewrites the row
\* with the current day and the payload it held; a row served less than 50
\* days ago is still in the table, whether close has run its eviction or not.
\* ---------------------------------------------------------------------------
Range(s) == {s[i] : i \in 1..Len(s)}

\* the URLs for which call c returned a payload taken from the cache
Hits(c) ==
    IF call[c].pc # "done" \/ call[c].exc # None \/ call[c].skip_cache THEN {}
    ELSE IF call[c].kind = "fetch"
         THEN {u \in Range(call[c].urls) :
                   task[<<c, 1>>] = IdleTask /\ call[c].result # None}
         ELSE {u \in Range(call[c].urls) \ Range(call[c].misses) :
                   DictGet(call[c].results.items, u) # None}

\* the payload call c returned for u
Served(c, u) ==
    IF call[c].kind = "fetch" THEN call[c].result
    ELSE DictGet(call[c].results.items, u)

C37_HitRefreshesAge ==
    /\ [](\A c \in Calls : \A u \in Hits(c) :
              now - call[c].at < 50 =>
                  /\ Normalize(u) \in DOMAIN responses
                  /\ responses[Normalize(u)].last_accessed >= call[c].at)
    /\ [][\A c \in Calls :
              call[c].pc # "done" =>
                  \A u \in Hits(c)' :
                      /\ Normalize(u) \in DOMAIN responses
                      /\ Loads(responses[Normalize(u)].response) = Served(c, u)'
                      /\ Normalize(u) \in DOMAIN responses'
                      /\ Loads(responses'[Normalize(u)].response) = Served(c, u)'
                      /\ responses'[Normalize(u)].last_accessed = now']_vars

\* a row last written 51 days before the run was served on day 0; close ran
\* its eviction on day 49 and the row is still there, stamped day 0
C37_Witness ==
    /\ op.name = "close" /\ now = 49
    /\ \E c \in Calls : \E u \in Hits(c) :
           /\ call[c].at = 0
           /\ op.before.files[DB1].responses[Normalize(u)].last_accessed = -51
           /\ Normalize(u) \in DOMAIN responses
           /\ responses[Normalize(u)].last_accessed = 0

\* ---------------------------------------------------------------------------
\* C38. The credential is never persisted: no key of the table, in memory or
\* committed to a file, has an api_key parameter; a URL and the same URL with
\* another api_key value have one RequestKey, and every step of
\* create_or_update, create_or_update_all, fetch and fetch_all adds to the
\* table exactly the keys that the run made with the other credential adds.
\* ---------------------------------------------------------------------------
NoCredential(k) == \A i \in 1..Len(k.query) : k.query[i][1] # "api_key"

\* the same request made with the other credential
Twin(u) ==
    [u EXCEPT !.query =
        [i \in 1..Len(@) |->
            IF @[i][1] = "api_key"
            THEN <<"api_key", IF @[i][2] = "K" THEN "L" ELSE "K">>
            ELSE @[i]]]

\* the keys under which the twin run stores the non-None entries of data
TwinKeys(data) == {Normalize(Twin(kv[1])) : kv \in {x \in Range(data) : x[2] # None}}

\* the entries call c hands to the cache when it returns
StoredBy(c) ==
    IF call[c].kind = "fetch" THEN <<<<call[c].urls[1], call[c].result>>>>
    ELSE call[c].results.items

C38_CredentialNeverPersisted ==
    /\ [](/\ \A k \in DOMAIN responses : NoCredential(k)
          /\ \A p \in DbPaths : \A k \in DOMAIN files[p].responses : NoCredential(k)
          /\ \A u \in CredentialUrls :
                 Twin(u) # u /\ Normalize(Twin(u)) = Normalize(u))
    /\ [][/\ (op'.n # op.n /\ op'.name = "create_or_update") =>
                 DOMAIN responses' = DOMAIN responses \cup
                     (IF conn # None THEN TwinKeys(<<<<op'.url, op'.value>>>>) ELSE {})
          /\ (op'.n # op.n /\ op'.name = "create_or_update_all") =>
                 DOMAIN responses' = DOMAIN responses \cup
                     (IF conn # None THEN TwinKeys(op'.value) ELSE {})
          /\ \A c \in Calls :
                 (call[c].pc # "done" /\ call'[c].pc = "done") =>
                     DOMAIN responses' = DOMAIN responses \cup
                         (IF conn # None THEN TwinKeys(StoredBy(c)') ELSE {})]_vars

\* a payload was put under U7 (api_key=L) and fetch_all stored fresh payloads
\* for U1 (api_key=K) and U3: the table has the two keys, none with api_key
C38_Witness ==
    /\ op.name = "create_or_update" /\ op.url = U7 /\ op.value = "fresh"
    /\ op.before.conn # None
    /\ \E c \in Calls :
           /\ call[c].kind = "fetch_all" /\ call[c].pc = "done"
           /\ call[c].urls = <<U1, U3>>
           /\ \A i \in 1..2 : Fresh(c, i) = "fresh"
    /\ DOMAIN responses = {Normalize(U1), Normalize(U3)}
    /\ responses[Normalize(U7)].response = Dumps("fresh")

\* ---------------------------------------------------------------------------
\* C39. As claimed: when the transport returns absence for a URL of a fetch or
\* fetch_all call, the call leaves the entry of the URL's RequestKey as it
\* found it (same payload, same timestamp) and creates none.
\* ---------------------------------------------------------------------------
\* the requests of call c that ended in absence
AbsentIn(c) ==
    {i \in 1..Len(call[c].misses) : Done(<<c, i>>) /\ task[<<c, i>>].result = None}

\* the table has for key what tbl had
Undisturbed(tbl, key) ==
    /\ key \in DOMAIN responses <=> key \in DOMAIN tbl
    /\ key \in DOMAIN tbl => responses[key] = tbl[key]

KeyFailed(c, i) ==
    \A j \in 1..Len(call[c].misses) :
        Normalize(call[c].misses[j]) = Normalize(call[c].misses[i]) =>
            j \in AbsentIn(c)

\* call c is past its cache lookup and has not returned
Awaiting(c) == call[c].pc \in {"waiting", "gather"}

\* this step leaves the entry of key as it was
SameEntry(key) ==
    /\ key \in DOMAIN responses' <=> key \in DOMAIN responses
    /\ key \in DOMAIN responses => responses'[key] = responses[key]

C40_ShutdownRunsClose ==
    app.pc = "exited" => (op.name = "close" /\ conn = None /\ session = None)

====
